---- MODULE Spec2Model ----
(***************************************************************************)
(* Sensor simulation: entities advanced by movement patterns, sensors that *)
(* probabilistically detect them, and the SimulationEngine that ticks      *)
(* both and hands (entity, reading, sensor_id) triples to the publisher.   *)
(*                                                                         *)
(* Conventions of the model                                                *)
(*   - time is the wall clock time.time(), in whole seconds;               *)
(*   - positions lie in a plane tangent to the globe: lat is the distance  *)
(*     in metres north of its origin and lon the distance in metres east,  *)
(*     so the geodesic distance is the Euclidean one; 90 degrees of        *)
(*     latitude are MetresPerDegree * 90 metres;                           *)
(*   - bearings and headings are whole degrees; the directions a           *)
(*     destination is computed for are the twelve of the compass rose      *)
(*     that the 5-12-13 triangle makes exact;                              *)
(*   - fractions (probabilities, confidences, factors, rates in Hz) are    *)
(*     fixed-point numbers with three decimals: Scale stands for 1.0;      *)
(*   - every random.random()/random.uniform() draw is an input of the      *)
(*     operator that consumes it, chosen by the calling action.            *)
(***************************************************************************)
EXTENDS Integers, Sequences, FiniteSets, TLC

VARIABLES
    now,              \* time.time()
    entities,         \* SimulationEngine.entities / the list given to a sensor
    sensors,          \* SimulationEngine.sensors
    is_running,       \* SimulationEngine.is_running
    start_time,       \* SimulationEngine.start_time
    last_update_time, \* SimulationEngine.last_update_time
    pc,               \* position of run/run_async: "idle", "top", "sleeping"
    mode,             \* "none", "sync" (run) or "async" (run_async)
    duration,         \* duration_seconds of the current run (None or a number)
    wake_at,          \* time at which the current sleep returns
    run_info,         \* history of the current/last run (flushes, steps, exit)
    engine,           \* the engine's fixed attributes (publisher, metrics, rates)
    tick,             \* what the last step did (calls it made, what it raised)
    call,             \* what the last direct detect_entities call returned
    move,             \* what the direct Entity.step calls did so far
    collector,        \* a MetricsCollector and the threads that record into it
    lattice_publisher \* a LatticePublisher and what its last call did

vars == <<now, entities, sensors, is_running, start_time, last_update_time,
          pc, mode, duration, wake_at, run_info, engine, tick, call, move,
          collector, lattice_publisher>>

engineVars == <<is_running, start_time, last_update_time, pc, mode, duration,
                wake_at, run_info, engine, tick>>

-----------------------------------------------------------------------------
(* Bounds of the model *)

\* last value of the wall clock that the model explores
MaxTime == 4

\* value of the wall clock in the initial state (sensors start with last_update = 0.0)
StartClock == 2

\* number of runs (run or run_async calls) explored in one behaviour
MaxRuns == 1

\* number of direct step calls explored in one behaviour
MaxSteps == 2

\* number of direct Entity.step calls explored in one behaviour
MaxMoves == 3

\* largest number of entities and of sensors the engine is given
MaxEntities == 3
MaxSensors == 2

\* number of threads that record metrics, and of the calls they make in all
MaxThreads == 2
MaxCalls == 3

\* direct calls of the publisher explored
MaxPublishes == 2

\* 1.0 as a fixed-point number with three decimals
Scale == 10 * 10 * 10

\* an Optional value: None is <<>> and a present value x is <<x>>
None == <<>>
Some(x) == <<x>>

Min(a, b) == IF a < b THEN a ELSE b
Max(a, b) == IF a > b THEN a ELSE b
Abs(a) == IF a < 0 THEN -a ELSE a

\* variant of the clamp that leaves the value as it is
Clamp01_unclamped(x) == x

\* min(max(x, 0.0), 1.0)
Clamp01(x) == Min(Max(x, 0), Scale)

\* a * b of two fixed-point fractions
Mul(a, b) == (a * b) \div Scale

\* a / b of two fixed-point fractions (b # 0)
Div(a, b) == (a * Scale) \div b

-----------------------------------------------------------------------------
(* utils/geo.py *)

\* metres in one degree of latitude, and the latitude of the north pole
MetresPerDegree == 111000
PoleLat == 90 * MetresPerDegree

\* the least r in lo..hi with r * r >= n
RECURSIVE sqrt_search(_, _, _)
sqrt_search(n, lo, hi) ==
    IF lo >= hi THEN lo
    ELSE LET mid == (lo + hi) \div 2
         IN  IF mid * mid >= n THEN sqrt_search(n, lo, mid)
             ELSE sqrt_search(n, mid + 1, hi)

\* the distance in whole metres, rounded up: comparing it with a whole
\* number of metres gives what comparing the exact distance gives
calculate_distance(lat1, lon1, lat2, lon2) ==
    IF lon1 = lon2 THEN Abs(lat1 - lat2)
    ELSE IF lat1 = lat2 THEN Abs(lon1 - lon2)
    ELSE sqrt_search((lat1 - lat2) * (lat1 - lat2) + (lon1 - lon2) * (lon1 - lon2),
                     0, Abs(lat1 - lat2) + Abs(lon1 - lon2))

\* the compass rose: the bearings (whole degrees) whose direction is a whole
\* number of thirteenths north and east
Compass ==
    { [deg |-> 0, north |-> 13, east |-> 0], [deg |-> 23, north |-> 12, east |-> 5],
      [deg |-> 67, north |-> 5, east |-> 12], [deg |-> 90, north |-> 0, east |-> 13],
      [deg |-> 113, north |-> -5, east |-> 12], [deg |-> 157, north |-> -12, east |-> 5],
      [deg |-> 180, north |-> -13, east |-> 0], [deg |-> 203, north |-> -12, east |-> -5],
      [deg |-> 247, north |-> -5, east |-> -12], [deg |-> 270, north |-> 0, east |-> -13],
      [deg |-> 293, north |-> 5, east |-> -12], [deg |-> 337, north |-> 12, east |-> -5] }

\* the angle between two bearings, in 0..180
angle_between(a, b) == Min((a - b) % 360, (b - a) % 360)

\* the direction of the compass rose nearest to bearing
direction(bearing) ==
    CHOOSE c \in Compass :
        \A o \in Compass :
            angle_between(c.deg, bearing) <= angle_between(o.deg, bearing)

\* atan2 of the offset east and the offset north, as the bearing of the
\* compass rose nearest to it; atan2(0, 0) is 0
calculate_bearing(lat1, lon1, lat2, lon2) ==
    IF lat1 = lat2 /\ lon1 = lon2 THEN 0
    ELSE (CHOOSE c \in Compass :
              \A o \in Compass :
                  (lat2 - lat1) * c.north + (lon2 - lon1) * c.east
                      >= (lat2 - lat1) * o.north + (lon2 - lon1) * o.east).deg

\* the point distance_meters from (lat, lon) along bearing, as <<lat, lon>>
calculate_destination(lat, lon, bearing, distance_meters) ==
    <<lat + (distance_meters * direction(bearing).north) \div 13,
      lon + (distance_meters * direction(bearing).east) \div 13>>

-----------------------------------------------------------------------------
(* sensors/base.py *)

EntityTypes == {"aircraft", "ground_vehicle", "maritime_vessel",
                "unknown_contact", "stationary_object"}

SensorTypes == {"radar", "adsb", "camera", "acoustic"}

\* outcomes of the random draws of one per-entity detection attempt:
\* u is random.random() and gain is random.uniform(0.9, 1.0)
Draws == { [u |-> 0, gain |-> 900], [u |-> 999, gain |-> 1000] }

\* outcomes of the random.random() draw that decides a radar false alarm
FalseAlarmDraws == {0, 999}

\* variant of can_detect without the range check
can_detect_any_range(s, e) == s.is_active

can_detect(s, e) ==
    IF ~s.is_active THEN FALSE
    ELSE IF calculate_distance(s.position_lat, s.position_lon, e.lat, e.lon) > s.max_range_m THEN FALSE
    ELSE TRUE

\* 1.0 / update_rate_hz, a fixed-point number of seconds
min_interval(s) == Div(Scale, s.update_rate_hz)

\* variant of should_update that measures the time since the epoch instead of
\* since last_update
should_update_since_epoch(s, current_time) ==
    current_time * Scale >= min_interval(s)

should_update(s, current_time) ==
    LET time_since_update == current_time - s.last_update
    IN  time_since_update * Scale >= min_interval(s)

SensorReading(eid, sid, t, conf, fa) ==
    [entity_id |-> eid, sensor_id |-> sid, timestamp |-> t,
     confidence |-> conf, false_alarm |-> fa]

-----------------------------------------------------------------------------
(* sensors/radar.py *)

\* radar cross-section in tenths of a square metre
calculate_radar_cross_section(s, e) ==
    LET base_rcs == CASE e.entity_type = "aircraft" -> 100
                      [] e.entity_type = "ground_vehicle" -> 50
                      [] e.entity_type = "maritime_vessel" -> 1000
                      [] e.entity_type = "unknown_contact" -> 10
                      [] e.entity_type = "stationary_object" -> 500
                      [] OTHER -> 10
        distance == calculate_distance(s.position_lat, s.position_lon, e.lat, e.lon)
    IN  IF distance > 10000 THEN (base_rcs * 8) \div 10 ELSE base_rcs

radar_detection_probability(s, e, gain) ==
    LET distance == calculate_distance(s.position_lat, s.position_lon, e.lat, e.lon)
        rcs == calculate_radar_cross_section(s, e)
    IN  IF distance > s.max_range_m THEN 0
        ELSE IF rcs < s.min_detectable_rcs_m2 THEN 0
        ELSE LET range_factor == Scale - Div(distance, s.max_range_m)
                 rcs_factor == Min(Div(rcs, s.min_detectable_rcs_m2), 2 * Scale) \div 2
                 probability == Mul(Mul(range_factor, rcs_factor), gain)
             IN  Clamp01(probability)

radar_confidence(s, e, detection_prob) ==
    LET distance == calculate_distance(s.position_lat, s.position_lon, e.lat, e.lon)
        range_factor == Scale - Div(distance, s.max_range_m)
    IN  Clamp01(Mul(detection_prob, range_factor))

\* entity_id of a false alarm: f"false_alarm_{int(current_time)}"
\* (an id is a pair <<prefix, number>> standing for the string "prefix_number")
false_alarm_id(current_time) == <<"false_alarm", current_time>>

\* confidence=random.uniform(0.1, 0.3) of a false alarm
FalseAlarmConfidence == 200

-----------------------------------------------------------------------------
(* sensors/adsb.py *)

\* variant of _has_transponder that does not look at the entity type
has_transponder_any_type(s, e, u) == u < s.transponder_coverage

has_transponder(s, e, u) ==
    IF e.entity_type # "aircraft" THEN FALSE
    ELSE u < s.transponder_coverage

adsb_confidence(s, e) ==
    LET distance == calculate_distance(s.position_lat, s.position_lon, e.lat, e.lon)
        range_factor == Scale - Div(distance, s.max_range_m) \div 10
    IN  Min(Max(range_factor, 850), Scale)

-----------------------------------------------------------------------------
(* sensors/camera.py *)

camera_detection_probability(s, e) ==
    LET distance == calculate_distance(s.position_lat, s.position_lon, e.lat, e.lon)
    IN  IF distance > s.max_range_m THEN 0
        ELSE LET range_factor == Scale - Div(distance, s.max_range_m)
                 type_factor == CASE e.entity_type = "aircraft" -> 900
                                  [] e.entity_type = "ground_vehicle" -> 700
                                  [] e.entity_type = "maritime_vessel" -> 800
                                  [] e.entity_type = "unknown_contact" -> 500
                                  [] e.entity_type = "stationary_object" -> 600
                                  [] OTHER -> 500
                 weather_factor == s.weather_visibility_factor
                 day_night_factor == IF s.day_night_mode = "night" THEN 800 ELSE Scale
                 probability == Mul(Mul(Mul(range_factor, type_factor), weather_factor),
                                    day_night_factor)
             IN  Clamp01(probability)

camera_confidence(s, e, detection_prob) ==
    LET distance == calculate_distance(s.position_lat, s.position_lon, e.lat, e.lon)
        range_factor == Scale - (Div(distance, s.max_range_m) * 3) \div 10
    IN  Clamp01(Mul(detection_prob, range_factor))

-----------------------------------------------------------------------------
(* sensors/acoustic.py *)

calculate_sound_level(e) ==
    LET base_sound == CASE e.entity_type = "aircraft" -> 800
                        [] e.entity_type = "ground_vehicle" -> 600
                        [] e.entity_type = "maritime_vessel" -> 500
                        [] e.entity_type = "unknown_contact" -> 400
                        [] e.entity_type = "stationary_object" -> 100
                        [] OTHER -> 300
        speed_factor == Min(Div(e.speed_ms, 100), 1500)
    IN  Min(Mul(base_sound, speed_factor), Scale)

acoustic_snr_factor(s, e) ==
    LET snr == Div(calculate_sound_level(e), Max(s.ambient_noise_level, 100))
    IN  Min(snr \div 2, Scale)

\* 1.0 / wind_impact_factor raises ZeroDivisionError when the factor is 0
acoustic_raises(s, e) ==
    /\ calculate_distance(s.position_lat, s.position_lon, e.lat, e.lon) <= s.max_range_m
    /\ s.wind_impact_factor = 0

acoustic_detection_probability(s, e) ==
    LET distance == calculate_distance(s.position_lat, s.position_lon, e.lat, e.lon)
    IN  IF distance > s.max_range_m THEN 0
        ELSE LET ratio == Div(distance, s.max_range_m)
                 range_factor == Div(Scale, Scale + Mul(ratio, ratio))
                 snr_factor == acoustic_snr_factor(s, e)
                 wind_factor == Div(Scale, s.wind_impact_factor)
                 probability == Mul(Mul(range_factor, snr_factor), wind_factor)
             IN  Clamp01(probability)

acoustic_confidence(s, e, detection_prob) ==
    Clamp01(Mul(detection_prob, acoustic_snr_factor(s, e)))

-----------------------------------------------------------------------------
(* detect_entities of the four variants *)

\* `if random.random() < detection_prob:` and the reading it appends
\* (d is the Draws element consumed for e, confidence what the variant
\* computes for the reading)
reading_if_detected(s, e, d, current_time, detection_prob, confidence) ==
    IF d.u < detection_prob
    THEN <<SensorReading(e.entity_id, s.sensor_id, current_time, confidence,
                         FALSE)>>
    ELSE <<>>

\* the reading the per-entity body of the loop appends for e, or <<>>
scan_entity(s, e, d, current_time) ==
    IF ~can_detect(s, e) THEN <<>>
    ELSE CASE s.sensor_type = "radar" ->
                reading_if_detected(s, e, d, current_time,
                    radar_detection_probability(s, e, d.gain),
                    radar_confidence(s, e, radar_detection_probability(s, e, d.gain)))
           [] s.sensor_type = "adsb" ->
                IF ~has_transponder(s, e, d.u) THEN <<>>
                ELSE <<SensorReading(e.entity_id, s.sensor_id, current_time,
                                     adsb_confidence(s, e), FALSE)>>
           [] s.sensor_type = "camera" ->
                reading_if_detected(s, e, d, current_time,
                    camera_detection_probability(s, e),
                    camera_confidence(s, e, camera_detection_probability(s, e)))
           [] s.sensor_type = "acoustic" ->
                reading_if_detected(s, e, d, current_time,
                    acoustic_detection_probability(s, e),
                    acoustic_confidence(s, e, acoustic_detection_probability(s, e)))

\* does the per-entity body raise for e (the exception leaves detect_entities)
scan_raises(s, e) ==
    /\ can_detect(s, e)
    /\ s.sensor_type = "acoustic"
    /\ acoustic_raises(s, e)

\* the readings of one entity before those of the rest of the loop, unless
\* the rest raised
scan_prepend(readings, rest) ==
    IF rest.raised THEN rest
    ELSE [raised |-> FALSE, readings |-> readings \o rest.readings]

\* the loop `for entity in entities` from index i on
RECURSIVE scan_entities(_, _, _, _, _)
scan_entities(s, ents, rnd, current_time, i) ==
    IF i > Len(ents) THEN [raised |-> FALSE, readings |-> <<>>]
    ELSE IF scan_raises(s, ents[i]) THEN [raised |-> TRUE, readings |-> <<>>]
    ELSE scan_prepend(scan_entity(s, ents[i], rnd.ent[i], current_time),
                      scan_entities(s, ents, rnd, current_time, i + 1))

\* the false alarm block of RadarSensor.detect_entities
false_alarms(s, rnd, current_time) ==
    IF s.sensor_type = "radar" /\ rnd.fa < s.false_alarm_rate
    THEN <<SensorReading(false_alarm_id(current_time), s.sensor_id, current_time,
                         FalseAlarmConfidence, TRUE)>>
    ELSE <<>>

\* the end of detect_entities after the loop over the entities (scan)
detect_finish(s, scan, alarms, current_time) ==
    IF scan.raised
    THEN [raised |-> TRUE, readings |-> <<>>, scanned |-> FALSE, sensor |-> s]
    ELSE [raised |-> FALSE, readings |-> scan.readings \o alarms,
          scanned |-> TRUE, sensor |-> [s EXCEPT !.last_update = current_time]]

\* variant of detect_entities that stamps last_update on a gated call too
detect_entities_stamp_gated(s, ents, rnd, check_time, current_time) ==
    IF ~should_update(s, check_time)
    THEN [raised |-> FALSE, readings |-> <<>>, scanned |-> FALSE,
          sensor |-> [s EXCEPT !.last_update = check_time]]
    ELSE detect_finish(s, scan_entities(s, ents, rnd, current_time, 1),
                       false_alarms(s, rnd, current_time), current_time)

\* detect_entities(entities) with the random outcomes rnd: what it returns or
\* raises, and the sensor afterwards. check_time is the clock read by
\* should_update and current_time the later read that stamps the scan
detect_entities(s, ents, rnd, check_time, current_time) ==
    IF ~should_update(s, check_time)
    THEN [raised |-> FALSE, readings |-> <<>>, scanned |-> FALSE, sensor |-> s]
    ELSE detect_finish(s, scan_entities(s, ents, rnd, current_time, 1),
                       false_alarms(s, rnd, current_time), current_time)

\* the draws the per-entity body of the loop may consume for e (an entity
\* the body skips, or for which it raises, consumes none: its draw is fixed)
entity_draws(s, e) ==
    IF ~can_detect(s, e) \/ scan_raises(s, e) THEN {[u |-> 0, gain |-> 1000]}
    ELSE IF s.sensor_type = "radar" THEN Draws
    ELSE {[u |-> d.u, gain |-> 1000] : d \in Draws}

\* the random outcomes a detect_entities call of s over ents at check_time may
\* consume (a gated call consumes none)
RandomOutcomes(s, ents, check_time) ==
    IF ~should_update(s, check_time)
    THEN [ent : [1..Len(ents) -> {[u |-> 0, gain |-> 1000]}], fa : {999}]
    ELSE [ent : { f \in [1..Len(ents) -> UNION {entity_draws(s, ents[k]) :
                                                   k \in 1..Len(ents)}] :
                    \A k \in 1..Len(ents) : f[k] \in entity_draws(s, ents[k]) },
          fa : IF s.sensor_type = "radar" THEN FalseAlarmDraws ELSE {999}]

-----------------------------------------------------------------------------
(* simulation/movement.py *)

\* a movement pattern object: the fields of all variants in one record
NoPattern ==
    [kind |-> "none", waypoints |-> <<>>, speed_ms |-> 0, arrival_threshold_m |-> 0,
     loop |-> FALSE, current_waypoint_idx |-> 0, center_lat |-> 0, center_lon |-> 0,
     pattern_type |-> "circular", radius_m |-> 0, altitude_m |-> 0, angle |-> 0,
     initial_lat |-> 0, initial_lon |-> 0, max_deviation_deg |-> 0,
     boundary_radius_m |-> None, current_heading |-> 0,
     leader_entity |-> <<"none", 0>>, offset_lat_m |-> 0, offset_lon_m |-> 0,
     offset_altitude_m |-> 0,
     base_speed_ms |-> 0, maneuver_probability |-> 0, max_altitude_change_m |-> 0,
     max_heading_change_deg |-> 0, in_maneuver |-> FALSE, maneuver_end_time |-> 0]

WaypointPattern(waypoints, speed_ms, arrival_threshold_m, loop) ==
    [NoPattern EXCEPT !.kind = "waypoint", !.waypoints = waypoints,
                      !.speed_ms = speed_ms,
                      !.arrival_threshold_m = arrival_threshold_m, !.loop = loop]

PatrolPattern(center_lat, center_lon, pattern_type, radius_m, speed_ms, altitude_m) ==
    [NoPattern EXCEPT !.kind = "patrol", !.center_lat = center_lat,
                      !.center_lon = center_lon,
                      !.pattern_type = pattern_type, !.radius_m = radius_m,
                      !.speed_ms = speed_ms, !.altitude_m = altitude_m]

\* RandomWalkPattern.__init__; current_heading is its draw random.uniform(0, 360)
RandomWalkPattern(initial_lat, initial_lon, speed_ms, max_deviation_deg, boundary_radius_m, altitude_m, current_heading) ==
    [NoPattern EXCEPT !.kind = "random_walk", !.initial_lat = initial_lat,
                      !.initial_lon = initial_lon, !.speed_ms = speed_ms,
                      !.max_deviation_deg = max_deviation_deg,
                      !.boundary_radius_m = boundary_radius_m,
                      !.altitude_m = altitude_m,
                      !.current_heading = current_heading]

\* FormationPattern.__init__; the reference to the leader object is the
\* leader's entity_id, looked up in the list the leader is kept in
FormationPattern(leader_entity, offset_lat_m, offset_lon_m, offset_altitude_m) ==
    [NoPattern EXCEPT !.kind = "formation", !.leader_entity = leader_entity,
                      !.offset_lat_m = offset_lat_m,
                      !.offset_lon_m = offset_lon_m,
                      !.offset_altitude_m = offset_altitude_m]

EvasivePattern(base_speed_ms, maneuver_probability, max_altitude_change_m, max_heading_change_deg) ==
    [NoPattern EXCEPT !.kind = "evasive", !.base_speed_ms = base_speed_ms,
                      !.maneuver_probability = maneuver_probability,
                      !.max_altitude_change_m = max_altitude_change_m,
                      !.max_heading_change_deg = max_heading_change_deg]

\* the random draws of one update call: u is random.random(), dur is
\* random.uniform(2.0, 5.0), turn the uniform heading change in degrees and
\* climb the uniform altitude change; a pattern that draws nothing gets NoDraw
NoDraw == [u |-> 999, dur |-> 2, turn |-> 0, climb |-> 0]

\* the heading changes explored, in whole degrees
TurnChoices == {-90, -44, -23, 0, 23, 44, 90}

\* values of random.uniform(-m, m) for a heading change
Turns(m) == { t \in TurnChoices : Abs(t) <= m }

\* the draws an update of pattern p may consume
move_draws(p) ==
    CASE p.kind = "random_walk" ->
            { [NoDraw EXCEPT !.turn = t] : t \in Turns(p.max_deviation_deg) }
      [] p.kind = "evasive" ->
            { [u |-> u, dur |-> dur, turn |-> t, climb |-> c] :
                  u \in {0, 999}, dur \in {2, 5},
                  t \in Turns(p.max_heading_change_deg),
                  c \in {-p.max_altitude_change_m, p.max_altitude_change_m} }
      [] OTHER -> {NoDraw}

State(lat, lon, altitude_m, heading_deg, speed_ms) ==
    [lat |-> lat, lon |-> lon, altitude_m |-> altitude_m,
     heading_deg |-> heading_deg, speed_ms |-> speed_ms]

\* what update returns: the pattern object afterwards, the new state, or raised
Updated(p, st) == [raised |-> FALSE, pattern |-> p, state |-> st]
Raised(p, st) == [raised |-> TRUE, pattern |-> p, state |-> st]

\* the tail of WaypointPattern.update: move toward (target_lat, target_alt);
\* distance is the one measured before any index advance
waypoint_move(p, cur, target, target_alt, distance, delta_time) ==
    LET bearing == calculate_bearing(cur.lat, cur.lon, target.lat, target.lon)
        distance_to_move == Min(p.speed_ms * delta_time, distance)
        new == calculate_destination(cur.lat, cur.lon, bearing, distance_to_move)
        alt_diff == target_alt - cur.altitude_m
        alt_change_rate == 10
        alt_change == Min(Abs(alt_diff), alt_change_rate * delta_time)
                          * (IF alt_diff > 0 THEN 1 ELSE -1)
        new_alt == cur.altitude_m + alt_change
    IN  State(new[1], new[2], new_alt, bearing, p.speed_ms)

\* target_alt of a waypoint: `if target_alt is None: target_alt = current_altitude_m`
target_altitude(wp, cur) == IF wp.alt = None THEN cur.altitude_m ELSE wp.alt[1]

\* variant of WaypointPattern.update without the arrival check
waypoint_update_no_arrival(p, cur, delta_time) ==
    IF p.waypoints = <<>>
    THEN Updated(p, State(cur.lat, cur.lon, cur.altitude_m, cur.heading_deg, 0))
    ELSE Updated(p, waypoint_move(p, cur, p.waypoints[p.current_waypoint_idx + 1],
                     target_altitude(p.waypoints[p.current_waypoint_idx + 1], cur),
                     calculate_distance(cur.lat, cur.lon,
                                        p.waypoints[p.current_waypoint_idx + 1].lat,
                                        p.waypoints[p.current_waypoint_idx + 1].lon),
                     delta_time))

waypoint_update(p, cur, delta_time) ==
    IF p.waypoints = <<>>
    THEN Updated(p, State(cur.lat, cur.lon, cur.altitude_m, cur.heading_deg, 0))
    ELSE LET wp == p.waypoints[p.current_waypoint_idx + 1]
             target_alt == target_altitude(wp, cur)
             distance == calculate_distance(cur.lat, cur.lon, wp.lat, wp.lon)
         IN  IF distance <= p.arrival_threshold_m
             THEN LET idx == p.current_waypoint_idx + 1
                  IN  IF idx >= Len(p.waypoints) /\ ~p.loop
                      THEN Updated([p EXCEPT !.current_waypoint_idx = Len(p.waypoints) - 1],
                                   State(wp.lat, wp.lon, target_alt,
                                         cur.heading_deg, 0))
                      ELSE LET nidx == IF idx >= Len(p.waypoints) THEN 0 ELSE idx
                               nwp == p.waypoints[nidx + 1]
                           IN  Updated([p EXCEPT !.current_waypoint_idx = nidx],
                                       waypoint_move(p, cur, nwp,
                                                     target_altitude(nwp, cur),
                                                     distance, delta_time))
             ELSE Updated(p, waypoint_move(p, cur, wp, target_alt, distance,
                                           delta_time))

\* the phase angle is kept in quarter turns (fixed point) modulo a full turn:
\* the code reads only its sine, its cosine and its degrees % 360
FullTurn == 4 * Scale
Cos4(angle) == <<1, 0, -1, 0>>[((angle \div Scale) % 4) + 1]
Sin4(angle) == <<0, 1, 0, -1>>[((angle \div Scale) % 4) + 1]

\* PatrolPattern.update: speed_ms / radius_m raises ZeroDivisionError for a
\* zero radius, and the racetrack period does for a zero speed
patrol_update(p, cur, delta_time) ==
    IF p.radius_m = 0 THEN Raised(p, cur)
    ELSE IF p.pattern_type = "racetrack" /\ p.speed_ms = 0 THEN Raised(p, cur)
    ELSE LET angular_velocity == Div(p.speed_ms, p.radius_m)
             angle == (p.angle + angular_velocity * delta_time) % FullTurn
             offset_lat == IF p.pattern_type = "figure8"
                           THEN p.radius_m * Sin4(angle)
                           ELSE p.radius_m * Cos4(angle)
             offset_lon == IF p.pattern_type = "figure8"
                           THEN p.radius_m * Sin4(2 * angle)
                           ELSE p.radius_m * Sin4(angle)
             new_lat == p.center_lat + offset_lat
             new_lon == p.center_lon + offset_lon
             heading == ((angle * 90) \div Scale + 90) % 360
         IN  Updated([p EXCEPT !.angle = angle],
                     State(new_lat, new_lon, p.altitude_m, heading, p.speed_ms))

\* Python truthiness of `if self.boundary_radius_m:`
boundary_set(r) == r # None /\ r[1] # 0

\* the candidate point lies outside the boundary
turn_back(p, new) ==
    /\ boundary_set(p.boundary_radius_m)
    /\ calculate_distance(p.initial_lat, p.initial_lon, new[1], new[2])
           > p.boundary_radius_m[1]

\* the heading and the point RandomWalkPattern.update settles on, given the
\* heading after the random change and the candidate point new
random_walk_settle(p, cur, heading, distance, new) ==
    IF turn_back(p, new)
    THEN LET bearing_to_origin ==
                 calculate_bearing(new[1], new[2], p.initial_lat, p.initial_lon)
         IN  [heading |-> bearing_to_origin,
              point |-> calculate_destination(cur.lat, cur.lon,
                                              bearing_to_origin, distance)]
    ELSE [heading |-> heading, point |-> new]

random_walk_result(p, r) ==
    Updated([p EXCEPT !.current_heading = r.heading],
            State(r.point[1], r.point[2], p.altitude_m, r.heading, p.speed_ms))

\* RandomWalkPattern.update with the heading change d.turn
random_walk_update(p, cur, delta_time, d) ==
    LET heading == (p.current_heading + d.turn) % 360
        distance == p.speed_ms * delta_time
    IN  random_walk_result(p,
            random_walk_settle(p, cur, heading, distance,
                calculate_destination(cur.lat, cur.lon, heading, distance)))

\* variant of the leader reference that gives the first entity of the list
leader_of_first(p, ents) == ents[1]

\* the entity a Formation pattern refers to, as it is in ents now
leader_of(p, ents) ==
    ents[CHOOSE k \in 1..Len(ents) : ents[k].entity_id = p.leader_entity]

\* FormationPattern.update: the offsets in metres are added to the leader
\* (offset_m / 111000 degrees north, offset_m / (111000 cos lat) degrees east)
formation_update(p, leader) ==
    Updated(p, State(leader.lat + p.offset_lat_m, leader.lon + p.offset_lon_m,
                     leader.altitude_m + p.offset_altitude_m,
                     leader.heading_deg, leader.speed_ms))

\* a manoeuvre starts in this update
maneuver_starts(p, d) == ~p.in_maneuver /\ d.u < p.maneuver_probability

maneuver_end_time(p, d, current_time) ==
    IF maneuver_starts(p, d) THEN current_time + d.dur ELSE p.maneuver_end_time

\* the update executes a manoeuvre: one is on and its end time is not reached
evading(p, d, current_time) ==
    /\ p.in_maneuver \/ maneuver_starts(p, d)
    /\ current_time < maneuver_end_time(p, d, current_time)

evasive_move(p, cur, delta_time, new_heading, new_altitude, speed) ==
    LET new == calculate_destination(cur.lat, cur.lon, new_heading,
                                     speed * delta_time)
    IN  State(new[1], new[2], new_altitude, new_heading, speed)

\* variant of EvasivePattern.update that stays in the manoeuvre on expiry
evasive_update_no_revert(p, cur, delta_time, d, current_time) ==
    IF evading(p, d, current_time)
    THEN Updated([p EXCEPT !.in_maneuver = TRUE,
                           !.maneuver_end_time =
                               maneuver_end_time(p, d, current_time)],
                 evasive_move(p, cur, delta_time,
                              (cur.heading_deg + d.turn) % 360,
                              Max(0, cur.altitude_m + d.climb * delta_time),
                              (p.base_speed_ms * 3) \div 2))
    ELSE Updated(p, evasive_move(p, cur, delta_time, cur.heading_deg,
                                 cur.altitude_m, p.base_speed_ms))

\* EvasivePattern.update when time.time() gives current_time
evasive_update(p, cur, delta_time, d, current_time) ==
    IF evading(p, d, current_time)
    THEN Updated([p EXCEPT !.in_maneuver = TRUE,
                           !.maneuver_end_time =
                               maneuver_end_time(p, d, current_time)],
                 evasive_move(p, cur, delta_time,
                              (cur.heading_deg + d.turn) % 360,
                              Max(0, cur.altitude_m + d.climb * delta_time),
                              (p.base_speed_ms * 3) \div 2))
    ELSE Updated([p EXCEPT !.in_maneuver = FALSE],
                 evasive_move(p, cur, delta_time, cur.heading_deg,
                              cur.altitude_m, p.base_speed_ms))

\* MovementPattern.update, dispatched on the variant; ents is the list the
\* entities are kept in, d the draws and current_time the wall clock
pattern_update(p, cur, delta_time, ents, d, current_time) ==
    CASE p.kind = "waypoint" -> waypoint_update(p, cur, delta_time)
      [] p.kind = "patrol" -> patrol_update(p, cur, delta_time)
      [] p.kind = "random_walk" -> random_walk_update(p, cur, delta_time, d)
      [] p.kind = "formation" -> formation_update(p, leader_of(p, ents))
      [] p.kind = "evasive" -> evasive_update(p, cur, delta_time, d, current_time)
      [] OTHER -> Updated(p, cur)

-----------------------------------------------------------------------------
(* simulation/entities.py *)

Entity(entity_id, entity_type, lat, lon, altitude_m, heading_deg, speed_ms, pattern) ==
    [entity_id |-> entity_id, entity_type |-> entity_type, lat |-> lat, lon |-> lon,
     altitude_m |-> altitude_m, heading_deg |-> heading_deg, speed_ms |-> speed_ms,
     movement_pattern |-> pattern, created_at |-> StartClock,
     last_update |-> StartClock]

kinematics(e) == State(e.lat, e.lon, e.altitude_m, e.heading_deg, e.speed_ms)

\* update_position and update_motion with the new_state r of the pattern
entity_apply(e, r, current_time) ==
    IF r.raised THEN [raised |-> TRUE, entity |-> e]
    ELSE [raised |-> FALSE,
          entity |-> [e EXCEPT !.last_update = current_time,
                               !.lat = r.state.lat,
                               !.lon = r.state.lon,
                               !.altitude_m = r.state.altitude_m,
                               !.heading_deg = r.state.heading_deg,
                               !.speed_ms = r.state.speed_ms,
                               !.movement_pattern = r.pattern]]

\* Entity.step(delta_time): the entity afterwards, or raised with it untouched
entity_step(e, delta_time, ents, d, current_time) ==
    IF e.movement_pattern.kind = "none" THEN [raised |-> FALSE, entity |-> e]
    ELSE entity_apply(e, pattern_update(e.movement_pattern, kinematics(e),
                                        delta_time, ents, d, current_time),
                      current_time)

-----------------------------------------------------------------------------
(* simulation/engine.py: step *)

\* get_entity(entity_id): the first entity with that id, or None
RECURSIVE get_entity_from(_, _, _)
get_entity_from(ents, entity_id, i) ==
    IF i > Len(ents) THEN None
    ELSE IF ents[i].entity_id = entity_id THEN Some(ents[i])
    ELSE get_entity_from(ents, entity_id, i + 1)

\* variant of get_entity that gives the first entity whatever its id
get_entity_first(ents, entity_id) ==
    IF Len(ents) > 0 THEN Some(ents[1]) ELSE None

get_entity(ents, entity_id) == get_entity_from(ents, entity_id, 1)

\* `for entity in self.entities: entity.step(delta_time)` from index i on;
\* an exception of a pattern leaves the loop with the earlier entities advanced
\* (draws[i] are the random draws of the i-th entity's pattern)
RECURSIVE advance_entities(_, _, _, _, _)
advance_next(ents, delta_time, i, draws, current_time, r) ==
    IF r.raised THEN [raised |-> TRUE, entities |-> ents]
    ELSE advance_entities([ents EXCEPT ![i] = r.entity], delta_time, i + 1,
                          draws, current_time)

advance_entities(ents, delta_time, i, draws, current_time) ==
    IF i > Len(ents) THEN [raised |-> FALSE, entities |-> ents]
    ELSE advance_next(ents, delta_time, i, draws, current_time,
                      entity_step(ents[i], delta_time, ents, draws[i],
                                  current_time))

\* `if entity: all_readings.append((entity, reading, sensor.sensor_id))`
resolve_one(entity, reading, sensor_id) ==
    IF entity # None
    THEN <<[entity |-> entity[1], reading |-> reading, sensor_id |-> sensor_id]>>
    ELSE <<>>

\* the triples the loop `for reading in readings` appends to all_readings
RECURSIVE resolve_readings(_, _, _, _)
resolve_readings(ents, readings, sensor_id, i) ==
    IF i > Len(readings) THEN <<>>
    ELSE resolve_one(get_entity(ents, readings[i].entity_id), readings[i], sensor_id)
             \o resolve_readings(ents, readings, sensor_id, i + 1)

\* the readings that loop passes over because get_entity gave None
RECURSIVE skipped_readings(_, _, _)
skipped_readings(ents, readings, i) ==
    IF i > Len(readings) THEN <<>>
    ELSE (IF get_entity(ents, readings[i].entity_id) = None
          THEN <<readings[i]>> ELSE <<>>)
             \o skipped_readings(ents, readings, i + 1)

\* variant of query_one in which the try statement encloses the loop over
\* the sensors: a fault ends the loop
query_one_fault_ends_loop(sid, ents, metrics, r, rest) ==
    IF r.raised
    THEN [rest EXCEPT !.invoked = <<sid>>,
                      !.raised = <<sid>>,
                      !.record_error = IF metrics THEN <<sid>> ELSE <<>>,
                      !.all_readings = <<>>,
                      !.skipped = <<>>]
    ELSE [rest EXCEPT !.invoked = <<sid>> \o @,
                      !.all_readings = resolve_readings(ents, r.readings, sid, 1) \o @,
                      !.skipped = skipped_readings(ents, r.readings, 1) \o @]

\* the body of `for sensor in self.sensors` for an active sensor whose
\* detect_entities gave r, before what the rest of the loop gives
query_one(sid, ents, metrics, r, rest) ==
    IF r.raised
    THEN [rest EXCEPT !.invoked = <<sid>> \o @,
                      !.raised = <<sid>> \o @,
                      !.record_error = (IF metrics THEN <<sid>> ELSE <<>>) \o @]
    ELSE [rest EXCEPT !.invoked = <<sid>> \o @,
                      !.all_readings = resolve_readings(ents, r.readings, sid, 1) \o @,
                      !.skipped = skipped_readings(ents, r.readings, 1) \o @]

\* the loop `for sensor in self.sensors` from index i on, with the random
\* outcomes rnds[i] for sensor i: the sensors afterwards, the triples
\* collected, the readings skipped, the sensors invoked, those that raised,
\* and the record_error calls
RECURSIVE query_sensors(_, _, _, _, _, _)
query_next(sens, ents, rnds, current_time, metrics, i, r) ==
    query_one(sens[i].sensor_id, ents, metrics, r,
              query_sensors([sens EXCEPT ![i] = r.sensor], ents, rnds,
                            current_time, metrics, i + 1))

query_sensors(sens, ents, rnds, current_time, metrics, i) ==
    IF i > Len(sens)
    THEN [sensors |-> sens, all_readings |-> <<>>, skipped |-> <<>>,
          invoked |-> <<>>, raised |-> <<>>, record_error |-> <<>>]
    ELSE IF ~sens[i].is_active
    THEN query_sensors(sens, ents, rnds, current_time, metrics, i + 1)
    ELSE query_next(sens, ents, rnds, current_time, metrics, i,
                    detect_entities(sens[i], ents, rnds[i], current_time,
                                    current_time))

\* the calls made to the publisher for the triples of one tick
\* (ok is what the publisher reports; the engine does not read it)
PublishCall(op, triples, ok) == [op |-> op, triples |-> triples, ok |-> ok]

\* variant of publish_readings that batches from the first triple on
publish_readings_always_batch(publisher, all_readings, ok) ==
    IF ~publisher THEN <<>>
    ELSE IF Len(all_readings) >= 1
    THEN <<PublishCall("publish_entity_batch", all_readings, ok)>>
    ELSE <<>>

publish_readings(publisher, all_readings, ok) ==
    IF ~publisher THEN <<>>
    ELSE IF Len(all_readings) > 1
    THEN <<PublishCall("publish_entity_batch", all_readings, ok)>>
    ELSE [k \in 1..Len(all_readings) |->
             PublishCall("publish_entity", <<all_readings[k]>>, ok)]

\* no step has run yet
NoTick ==
    [done |-> FALSE, at |-> 0, delta_time |-> 0, raised |-> FALSE, before |-> <<>>,
     invoked |-> <<>>, faults |-> <<>>, record_error |-> <<>>,
     all_readings |-> <<>>, skipped |-> <<>>, publish |-> <<>>,
     entity_counts |-> None]

\* the rest of step after the sensors were queried (q)
step_publish(eng, ents, before, delta_time, ok, current_time, q) ==
    [entities |-> ents, sensors |-> q.sensors, raised |-> FALSE,
     tick |-> [done |-> TRUE, at |-> current_time, delta_time |-> delta_time,
               raised |-> FALSE, before |-> before,
               invoked |-> q.invoked, faults |-> q.raised,
               record_error |-> q.record_error,
               all_readings |-> q.all_readings,
               skipped |-> q.skipped,
               publish |-> publish_readings(eng.publisher, q.all_readings, ok),
               entity_counts |-> IF eng.metrics
                                 THEN Some(<<Len(ents), Len(ents)>>)
                                 ELSE None]]

\* variant of the rest of step in which the sensors scan the entities as they
\* were before the advance
step_sensors_before_advance(eng, ents, sens, delta_time, rnds, ok, current_time, adv) ==
    IF adv.raised
    THEN [entities |-> adv.entities, sensors |-> sens, raised |-> TRUE,
          tick |-> [NoTick EXCEPT !.done = TRUE, !.at = current_time,
                                  !.delta_time = delta_time,
                                  !.raised = TRUE, !.before = ents]]
    ELSE step_publish(eng, adv.entities, ents, delta_time, ok, current_time,
                      query_sensors(sens, ents, rnds, current_time,
                                    eng.metrics, 1))

\* the rest of step after the entities were advanced (adv)
step_sensors(eng, ents, sens, delta_time, rnds, ok, current_time, adv) ==
    IF adv.raised
    THEN [entities |-> adv.entities, sensors |-> sens, raised |-> TRUE,
          tick |-> [NoTick EXCEPT !.done = TRUE, !.at = current_time,
                                  !.delta_time = delta_time,
                                  !.raised = TRUE, !.before = ents]]
    ELSE step_publish(eng, adv.entities, ents, delta_time, ok, current_time,
                      query_sensors(sens, adv.entities, rnds, current_time,
                                    eng.metrics, 1))

\* step(delta_time) called at wall-clock time current_time: the entities and
\* sensors afterwards, whether it raised, and the calls it made
step(eng, ents, sens, delta_time, draws, rnds, ok, current_time) ==
    step_sensors(eng, ents, sens, delta_time, rnds, ok, current_time,
                 advance_entities(ents, delta_time, 1, draws, current_time))

-----------------------------------------------------------------------------
(* simulation/engine.py: run, run_async, stop *)

\* history of the engine's use: the runs made so far and, for the current or
\* last run, the flush_batch invocations and the steps since it started, the
\* clock value at which its last tick began, whether stop() was called
\* explicitly or the task cancelled, and why it returned; without a run, steps
\* counts the direct step calls
NoRun ==
    [runs |-> 0, flushes |-> 0, steps |-> 0, tick_began |-> 0,
     stop_seen |-> FALSE, exit |-> "none"]

\* variant of stop without the `if self.is_running` guard
stop_unguarded(running, publisher, flushes) ==
    [is_running |-> FALSE,
     flushes |-> IF publisher THEN flushes + 1 ELSE flushes]

\* stop(): the engine's is_running and the flush_batch calls afterwards
stop(running, publisher, flushes) ==
    IF running
    THEN [is_running |-> FALSE,
          flushes |-> IF publisher THEN flushes + 1 ELSE flushes]
    ELSE [is_running |-> running, flushes |-> flushes]

\* Python truthiness of `if duration_seconds:`
duration_set(d) == d # None /\ d[1] # 0

\* `elapsed >= duration_seconds` of the duration check
duration_reached(d, current_time, started) ==
    duration_set(d) /\ current_time - started >= d[1]

\* (1.0 / update_rate_hz) - (time.time() - current_time), fixed point
sleep_time(eng, current_time, t) ==
    Div(Scale, eng.update_rate_hz) - (t - current_time) * Scale

\* the `finally: self.stop()` of run/run_async, returning with cause
\* (ri is the run's history up to there)
Return(ri, cause) ==
    LET st == stop(is_running, engine.publisher, ri.flushes)
    IN  /\ is_running' = st.is_running
        /\ run_info' = [ri EXCEPT !.flushes = st.flushes, !.exit = cause]
        /\ pc' = "idle"

-----------------------------------------------------------------------------
(* Constructors and the scenarios explored *)

BaseSensor(sensor_id, sensor_type, position_lat, update_rate_hz, max_range_m) ==
    [sensor_id |-> sensor_id, sensor_type |-> sensor_type,
     position_lat |-> position_lat, position_lon |-> 0,
     update_rate_hz |-> update_rate_hz,
     max_range_m |-> max_range_m, last_update |-> 0, is_active |-> TRUE,
     min_detectable_rcs_m2 |-> 0, false_alarm_rate |-> 0,
     transponder_coverage |-> 0, weather_visibility_factor |-> 0,
     day_night_mode |-> "auto", ambient_noise_level |-> 0,
     wind_impact_factor |-> 0]

RadarSensor(sensor_id, position_lat, update_rate_hz, max_range_m, min_detectable_rcs_m2, false_alarm_rate) ==
    [BaseSensor(sensor_id, "radar", position_lat, update_rate_hz, max_range_m)
        EXCEPT !.min_detectable_rcs_m2 = min_detectable_rcs_m2,
               !.false_alarm_rate = false_alarm_rate]

ADSBSensor(sensor_id, position_lat, update_rate_hz, max_range_m, transponder_coverage) ==
    [BaseSensor(sensor_id, "adsb", position_lat, update_rate_hz, max_range_m)
        EXCEPT !.transponder_coverage = transponder_coverage]

CameraSensor(sensor_id, position_lat, update_rate_hz, max_range_m, weather_visibility_factor, day_night_mode) ==
    [BaseSensor(sensor_id, "camera", position_lat, update_rate_hz, max_range_m)
        EXCEPT !.weather_visibility_factor = weather_visibility_factor,
               !.day_night_mode = day_night_mode]

AcousticSensor(sensor_id, position_lat, update_rate_hz, max_range_m, ambient_noise_level, wind_impact_factor) ==
    [BaseSensor(sensor_id, "acoustic", position_lat, update_rate_hz, max_range_m)
        EXCEPT !.ambient_noise_level = ambient_noise_level,
               !.wind_impact_factor = wind_impact_factor]

\* update rates explored: 1 Hz and 0.5 Hz
UpdateRates == {Scale, Scale \div 2}

\* an entity of entity_type that stays lat metres north of the origin
Contact(entity_type, lat) ==
    Entity(<<"contact", 4>>, entity_type, lat, 0, 1000, 0, 50, NoPattern)

\* an aircraft flying a two-leg route, looping or not
Aircraft(loop) ==
    Entity(<<"aircraft", 1>>, "aircraft", 0, 0, 0, 0, 50,
           WaypointPattern(<<[lat |-> 100, lon |-> 0, alt |-> Some(20)],
                             [lat |-> 0, lon |-> 0, alt |-> None]>>, 50, 10, loop))

\* a ground vehicle on a circular patrol of the given centre and radius
Vehicle(center_lat, radius_m) ==
    Entity(<<"vehicle", 2>>, "ground_vehicle", center_lat + radius_m, 0, 0, 0, 100,
           PatrolPattern(center_lat, 0, "circular", radius_m, 100, 0))

\* an entity on a random walk from the origin, 13 m per second, that turns by
\* at most 45 degrees per update
Walker(boundary_radius_m, current_heading) ==
    Entity(<<"walker", 5>>, "unknown_contact", 0, 0, 1000, 0, 13,
           RandomWalkPattern(0, 0, 13, 45, boundary_radius_m, 1000, current_heading))

\* an aircraft on a one-leg route that does not loop
Courier(lat) ==
    Entity(<<"courier", 6>>, "aircraft", lat, 0, 0, 0, 13,
           WaypointPattern(<<[lat |-> 13, lon |-> 0, alt |-> None]>>, 13, 5, FALSE))

\* an aircraft on its first waypoint that climbs to a second one to the north
Shuttle ==
    Entity(<<"shuttle", 8>>, "aircraft", 0, 0, 0, 0, 13,
           WaypointPattern(<<[lat |-> 0, lon |-> 0, alt |-> None],
                             [lat |-> 13, lon |-> 0, alt |-> Some(1000)]>>,
                           13, 5, FALSE))

\* an aircraft that flies evasive manoeuvres
Evader ==
    Entity(<<"evader", 7>>, "aircraft", 0, 0, 1000, 0, 26,
           EvasivePattern(26, Scale \div 10, 500, 23))

\* a leader flying north from lat and its follower in formation
Leader(lat) ==
    Entity(<<"leader", 8>>, "aircraft", lat, 0, 1000, 0, 13,
           WaypointPattern(<<[lat |-> lat + 130, lon |-> 0, alt |-> None]>>,
                           13, 5, FALSE))

Wingman(lat) ==
    Entity(<<"wingman", 9>>, "aircraft", lat, 500, 1000, 0, 13,
           FormationPattern(<<"leader", 8>>, 1000, 500, 100))

\* a stationary object without movement pattern, far from every sensor
Tower ==
    Entity(<<"tower", 3>>, "stationary_object", 300000, 0, 0, 0, 0, NoPattern)

-----------------------------------------------------------------------------
(* Actions *)

\* the wall clock advances
Tick ==
    /\ now < MaxTime
    /\ now' = now + 1
    /\ UNCHANGED <<entities, sensors, engineVars, call, move, collector, lattice_publisher>>

\* BaseSensor.set_active(active)
SetActive(i, active) ==
    /\ sensors[i].is_active # active
    /\ sensors' = [sensors EXCEPT ![i].is_active = active]
    /\ UNCHANGED <<now, entities, engineVars, call, move, collector, lattice_publisher>>

\* the sequences that take their i-th element from sets[i], from index i on
RECURSIVE sequences_of(_, _)
sequences_of(sets, i) ==
    IF i > Len(sets) THEN {<<>>}
    ELSE { <<x>> \o rest : x \in sets[i], rest \in sequences_of(sets, i + 1) }

\* the random outcomes of one tick: one RandomOutcomes per sensor invoked
TickOutcomes ==
    sequences_of([i \in 1..Len(sensors) |->
                     IF sensors[i].is_active
                     THEN RandomOutcomes(sensors[i], entities, now)
                     ELSE {[ent |-> [k \in 1..Len(entities) |->
                                        [u |-> 0, gain |-> 1000]],
                            fa |-> 999]}], 1)

\* the draws of the movement patterns in one tick: one per entity
MoveOutcomes ==
    sequences_of([k \in 1..Len(entities) |->
                     move_draws(entities[k].movement_pattern)], 1)

\* what the publisher may report for a call
PublishOutcomes == IF engine.publisher THEN BOOLEAN ELSE {TRUE}

\* the engine after step gave r at current_time
Stepped(r, current_time) ==
    /\ entities' = r.entities
    /\ sensors' = r.sensors
    /\ tick' = r.tick
    /\ last_update_time' = IF r.raised THEN last_update_time ELSE current_time

\* a direct call of SimulationEngine.step(delta_time) while no run is active
Step(delta_time) ==
    /\ pc = "idle"
    /\ run_info.steps < MaxSteps
    /\ run_info' = [run_info EXCEPT !.steps = @ + 1]
    /\ \E draws \in MoveOutcomes, rnds \in TickOutcomes, ok \in PublishOutcomes :
          Stepped(step(engine, entities, sensors, delta_time, draws, rnds, ok, now),
                  now)
    /\ UNCHANGED <<now, is_running, start_time, pc, mode, duration, wake_at,
                   engine, call, move, collector, lattice_publisher>>

\* run(duration_seconds) / run_async(duration_seconds) up to the loop
RunStart(m, d) ==
    /\ pc = "idle"
    /\ run_info.runs < MaxRuns
    /\ is_running' = TRUE
    /\ start_time' = now
    /\ last_update_time' = now
    /\ mode' = m
    /\ duration' = d
    /\ pc' = "top"
    /\ run_info' = [NoRun EXCEPT !.runs = run_info.runs + 1]
    /\ UNCHANGED <<now, entities, sensors, wake_at, engine, tick, call, move, collector, lattice_publisher>>

\* the rest of an iteration after its step gave r: the duration check and
\* the sleep; ri is the run's history and t the clock after the step
AfterStep(r, ri, current_time, t) ==
    IF r.raised
    THEN /\ Return(ri, "step_exception")
         /\ UNCHANGED wake_at
    ELSE IF duration_reached(duration, current_time, start_time)
    THEN /\ Return(ri, "duration")
         /\ UNCHANGED wake_at
    ELSE /\ run_info' = ri
         /\ is_running' = is_running
         /\ IF sleep_time(engine, current_time, t) > 0
            THEN /\ pc' = "sleeping"
                 /\ wake_at' = t + sleep_time(engine, current_time, t) \div Scale
            ELSE /\ pc' = "top"
                 /\ UNCHANGED wake_at

\* the engine and the run after the step of an iteration gave r
LoopStepped(r, current_time, t) ==
    /\ Stepped(r, current_time)
    /\ now' = t
    /\ AfterStep(r, [run_info EXCEPT !.steps = @ + 1, !.tick_began = current_time],
                 current_time, t)

\* variant of LoopStep for a loop that does not test is_running
LoopStep_while_true(el) ==
    /\ pc = "top"
    /\ now + el <= MaxTime
    /\ \E draws \in MoveOutcomes, rnds \in TickOutcomes, ok \in PublishOutcomes :
          LoopStepped(step(engine, entities, sensors,
                           (now - last_update_time) * engine.simulation_speed,
                           draws, rnds, ok, now),
                      now, now + el)
    /\ UNCHANGED <<start_time, mode, duration, engine, call, move, collector, lattice_publisher>>

\* one iteration of `while self.is_running`: the step, the duration check and
\* the sleep; the iteration takes el seconds of wall-clock time
LoopStep(el) ==
    /\ pc = "top"
    /\ is_running
    /\ now + el <= MaxTime
    /\ \E draws \in MoveOutcomes, rnds \in TickOutcomes, ok \in PublishOutcomes :
          LoopStepped(step(engine, entities, sensors,
                           (now - last_update_time) * engine.simulation_speed,
                           draws, rnds, ok, now),
                      now, now + el)
    /\ UNCHANGED <<start_time, mode, duration, engine, call, move, collector, lattice_publisher>>

\* time.sleep / asyncio.sleep returns
Wake ==
    /\ pc = "sleeping"
    /\ now >= wake_at
    /\ pc' = "top"
    /\ UNCHANGED <<now, entities, sensors, is_running, start_time,
                   last_update_time, mode, duration, wake_at, run_info, engine,
                   tick, call, move, collector, lattice_publisher>>

\* the loop condition is false: the loop ends and `finally` runs
LoopExit ==
    /\ pc = "top"
    /\ ~is_running
    /\ Return(run_info, "stopped")
    /\ UNCHANGED <<now, entities, sensors, start_time, last_update_time, mode,
                   duration, wake_at, engine, tick, call, move, collector, lattice_publisher>>

\* an explicit stop() during the run: by another coroutine while run_async is
\* suspended, or from outside the thread of run
Stop ==
    /\ pc # "idle"
    /\ is_running
    /\ mode = "sync" \/ pc = "sleeping"
    /\ LET st == stop(is_running, engine.publisher, run_info.flushes)
       IN  /\ is_running' = st.is_running
           /\ run_info' = [run_info EXCEPT !.flushes = st.flushes,
                                           !.stop_seen = TRUE]
    /\ UNCHANGED <<now, entities, sensors, start_time, last_update_time, pc,
                   mode, duration, wake_at, engine, tick, call, move, collector, lattice_publisher>>

\* the task of run_async is cancelled at its suspension point:
\* `except asyncio.CancelledError`, then `finally`
Cancel ==
    /\ pc = "sleeping"
    /\ mode = "async"
    /\ Return([run_info EXCEPT !.stop_seen = TRUE], "cancelled")
    /\ UNCHANGED <<now, entities, sensors, start_time, last_update_time, mode,
                   duration, wake_at, engine, tick, call, move, collector, lattice_publisher>>

\* KeyboardInterrupt between two steps of the loop: caught by run, passed on
\* by run_async; `finally` runs in both
Interrupt ==
    /\ pc # "idle"
    /\ Return(run_info, "interrupt")
    /\ UNCHANGED <<now, entities, sensors, start_time, last_update_time, mode,
                   duration, wake_at, engine, tick, call, move, collector, lattice_publisher>>

\* no direct detect_entities call has been made yet
NoCall ==
    [done |-> FALSE, sensor |-> BaseSensor(<<"none", 0>>, "radar", 0, Scale, 0),
     check_time |-> 0, current_time |-> 0, raised |-> FALSE, scanned |-> FALSE,
     readings |-> <<>>]

\* the sensor and the record of the call after detect_entities gave r
Detected(i, late, r) ==
    /\ sensors' = [sensors EXCEPT ![i] = r.sensor]
    /\ now' = IF should_update(sensors[i], now) THEN now + late ELSE now
    /\ call' = [done |-> TRUE, sensor |-> sensors[i], check_time |-> now,
                current_time |-> now + late, raised |-> r.raised,
                scanned |-> r.scanned, readings |-> r.readings]

\* a direct call sensors[i].detect_entities(entities); the clock may advance
\* by late seconds between the two reads of time.time()
Detect(i, late) ==
    /\ now + late <= MaxTime
    /\ \E rnd \in RandomOutcomes(sensors[i], entities, now) :
          Detected(i, late, detect_entities(sensors[i], entities, rnd, now, now + late))
    /\ UNCHANGED <<entities, engineVars, move, collector, lattice_publisher>>

\* the update of a non-looping Waypoint pattern finds the entity within
\* arrival_threshold_m of the final waypoint while targeting it
finds_final_waypoint(e) ==
    LET p == e.movement_pattern
    IN  /\ p.kind = "waypoint"
        /\ ~p.loop
        /\ p.waypoints # <<>>
        /\ p.current_waypoint_idx + 1 = Len(p.waypoints)
        /\ calculate_distance(e.lat, e.lon,
                              p.waypoints[Len(p.waypoints)].lat,
                              p.waypoints[Len(p.waypoints)].lon)
               <= p.arrival_threshold_m

\* no direct Entity.step call has been made yet; later: how many were made,
\* the index, delta_time and outcome of the last one and the entity before
\* it, the entities whose update found them at their final waypoint, and the
\* delta_time values used
NoMoves ==
    [count |-> 0, index |-> 0, delta_time |-> 0, raised |-> FALSE,
     before |-> State(0, 0, 0, 0, 0), arrived |-> {}, deltas |-> {}]

\* the entity and the record of the calls after entities[i].step gave r
EntityStepped(i, delta_time, r) ==
    /\ entities' = [entities EXCEPT ![i] = r.entity]
    /\ move' = [count |-> move.count + 1, index |-> i,
                delta_time |-> delta_time, raised |-> r.raised,
                before |-> kinematics(entities[i]),
                arrived |-> IF finds_final_waypoint(entities[i])
                            THEN move.arrived \cup {i} ELSE move.arrived,
                deltas |-> move.deltas \cup {delta_time}]

\* a direct call entities[i].step(delta_time) while no run is active
EntityStep(i, delta_time) ==
    /\ pc = "idle"
    /\ move.count < MaxMoves
    /\ \E d \in move_draws(entities[i].movement_pattern) :
          EntityStepped(i, delta_time,
                        entity_step(entities[i], delta_time, entities, d, now))
    /\ UNCHANGED <<now, sensors, engineVars, call, collector, lattice_publisher>>

-----------------------------------------------------------------------------
(* utils/metrics.py: threads that record into one MetricsCollector *)

Threads == 1..MaxThreads

\* SensorMetrics(sensor_id): the counters of one sensor
SensorMetrics == [messages_sent |-> 0, errors |-> 0]

\* a thread outside any call
IdleThread == [pc |-> "idle", op |-> "none", loaded |-> 0]

\* MetricsCollector(): no sensor yet; threads is the position of each thread
\* in its record_message / record_error call for the one sensor_id used, and
\* calls counts the calls of each kind that returned
NoCollector ==
    [sensor |-> None, threads |-> [t \in Threads |-> IdleThread],
     begun |-> 0, calls |-> [message |-> 0, error |-> 0]]

\* get_or_create_sensor(sensor_id), atomic under self._lock
get_or_create_sensor(sensor) ==
    IF sensor = None THEN Some(SensorMetrics) ELSE sensor

\* the counter that the call op updates
counter(metrics, op) ==
    IF op = "message" THEN metrics.messages_sent ELSE metrics.errors

\* the metrics after the counter of op is set to value
store_counter(metrics, op, value) ==
    IF op = "message" THEN [metrics EXCEPT !.messages_sent = value]
    ELSE [metrics EXCEPT !.errors = value]

\* thread t calls record_message or record_error (op) and gets the sensor's
\* metrics object from get_or_create_sensor
RecordBegin(t, op) ==
    /\ collector.threads[t].pc = "idle"
    /\ collector.begun < MaxCalls
    /\ collector' = [collector EXCEPT
                         !.sensor = get_or_create_sensor(collector.sensor),
                         !.begun = @ + 1,
                         !.threads[t] = [pc |-> "got", op |-> op, loaded |-> 0]]
    /\ UNCHANGED <<now, entities, sensors, engineVars, call, move,
                   lattice_publisher>>

\* `self.messages_sent += 1` / `self.errors += 1`, first half: thread t reads
\* the counter (no lock is held)
RecordLoad(t) ==
    /\ collector.threads[t].pc = "got"
    /\ collector' = [collector EXCEPT
                         !.threads[t].pc = "loaded",
                         !.threads[t].loaded =
                             counter(collector.sensor[1], collector.threads[t].op)]
    /\ UNCHANGED <<now, entities, sensors, engineVars, call, move,
                   lattice_publisher>>

\* second half: thread t writes the value it read plus one, and returns
RecordStore(t) ==
    /\ collector.threads[t].pc = "loaded"
    /\ collector' = [collector EXCEPT
                         !.sensor = Some(store_counter(collector.sensor[1],
                                                       collector.threads[t].op,
                                                       collector.threads[t].loaded + 1)),
                         !.calls[collector.threads[t].op] = @ + 1,
                         !.threads[t] = IdleThread]
    /\ UNCHANGED <<now, entities, sensors, engineVars, call, move,
                   lattice_publisher>>

-----------------------------------------------------------------------------
(* lattice/ents.py, lattice/publisher.py *)

\* an (entity, sensor_reading, sensor_id) triple handed to the publisher:
\* the id of the entity, the sensor id (None when not given) and whether
\* format_entity_for_lattice raises for it
Triple(entity_id, sensor_id, malformed) ==
    [entity_id |-> entity_id, sensor_id |-> sensor_id, malformed |-> malformed]

\* format_entity_for_lattice: the "id" and the metadata "source_sensor" of
\* the dictionary it builds
format_entity_for_lattice(t) ==
    [id |-> t.entity_id,
     source_sensor |-> IF t.sensor_id = None THEN <<"unknown", 0>>
                       ELSE t.sensor_id[1]]

\* the dictionaries built for the triples that format, in order
\* (`except Exception` passes over the others)
RECURSIVE format_all(_, _)
format_all(triples, i) ==
    IF i > Len(triples) THEN <<>>
    ELSE (IF triples[i].malformed THEN <<>>
          ELSE <<format_entity_for_lattice(triples[i])>>)
             \o format_all(triples, i + 1)

\* the ids of a list of entity dictionaries
ids_of(ents) == {ents[k].id : k \in DOMAIN ents}

\* LatticePublisher(client, metrics, max_retries, retry_delay_seconds,
\* batch_size, batch_timeout_seconds)
LatticePublisher(metrics, max_retries, retry_delay_seconds, batch_size, batch_timeout_seconds) ==
    [metrics |-> metrics, max_retries |-> max_retries,
     retry_delay_seconds |-> retry_delay_seconds, batch_size |-> batch_size,
     batch_timeout_seconds |-> batch_timeout_seconds,
     batch |-> <<>>, batch_start_time |-> None]

\* what one call of the client does: it raises, or it accepts the ents
\* whose ids are in accepted and rejects the others
ClientOutcomes(ids) ==
    {[raised |-> TRUE, accepted |-> {}]}
        \cup {[raised |-> FALSE, accepted |-> a] : a \in SUBSET ids}

\* the events of a retry loop: calls of the client and sleeps
ClientCall(ents, outcome) ==
    [kind |-> "call", entities |-> ents, outcome |-> outcome, seconds |-> 0]

Sleep(seconds) ==
    [kind |-> "sleep", entities |-> <<>>,
     outcome |-> [raised |-> FALSE, accepted |-> {}], seconds |-> seconds]

\* variant of the wait between attempts that also waits after the last one
retry_sleep_after_last(p, attempt) ==
    <<Sleep(p.retry_delay_seconds * (attempt + 1))>>

\* `if attempt < self.max_retries - 1: time.sleep(retry_delay_seconds * (attempt + 1))`
retry_sleep(p, attempt) ==
    IF attempt < p.max_retries - 1
    THEN <<Sleep(p.retry_delay_seconds * (attempt + 1))>>
    ELSE <<>>

\* _publish_with_retry(entity_data) from attempt on, after the events so far:
\* outcomes[attempt + 1] is what the client does in that attempt
RECURSIVE publish_with_retry(_, _, _, _, _)
publish_with_retry(p, entity_data, outcomes, attempt, events) ==
    IF attempt >= p.max_retries THEN [success |-> FALSE, events |-> events]
    ELSE IF ~outcomes[attempt + 1].raised
            /\ entity_data.id \in outcomes[attempt + 1].accepted
    THEN [success |-> TRUE,
          events |-> Append(events, ClientCall(<<entity_data>>,
                                               outcomes[attempt + 1]))]
    ELSE publish_with_retry(p, entity_data, outcomes, attempt + 1,
                            Append(events, ClientCall(<<entity_data>>,
                                                      outcomes[attempt + 1]))
                                \o retry_sleep(p, attempt))

\* the map client.publish_entities_batch(ents) returns when the service
\* accepts the ids in accepted
batch_results(ents, accepted) ==
    [id \in ids_of(ents) |-> id \in accepted]

\* [e for e in entities if not results.get(e.get("id"), False)]
failed_entities(ents, results) ==
    SelectSeq(ents, LAMBDA e : ~results[e.id])

\* _publish_batch_with_retry(ents) from attempt on, after the events so far
RECURSIVE publish_batch_with_retry(_, _, _, _, _)
publish_batch_attempt(p, ents, outcomes, attempt, events, results) ==
    IF \A id \in DOMAIN results : results[id]
    THEN [results |-> results, events |-> events]
    ELSE IF attempt < p.max_retries - 1
            /\ failed_entities(ents, results) # <<>>
    THEN publish_batch_with_retry(p, failed_entities(ents, results),
                                  outcomes, attempt + 1,
                                  events \o <<Sleep(p.retry_delay_seconds
                                                      * (attempt + 1))>>)
    ELSE [results |-> results, events |-> events]

publish_batch_with_retry(p, ents, outcomes, attempt, events) ==
    IF attempt >= p.max_retries
    THEN [results |-> [id \in ids_of(ents) |-> FALSE], events |-> events]
    ELSE IF outcomes[attempt + 1].raised
    THEN publish_batch_with_retry(p, ents, outcomes, attempt + 1,
                                  Append(events, ClientCall(ents,
                                                            outcomes[attempt + 1]))
                                      \o retry_sleep(p, attempt))
    ELSE publish_batch_attempt(p, ents, outcomes, attempt,
                               Append(events, ClientCall(ents,
                                                         outcomes[attempt + 1])),
                               batch_results(ents,
                                             outcomes[attempt + 1].accepted))

\* what a call of the publisher did: the operation and its triples, the
\* events of its retry loop, what it returned (a boolean, a map or None) and
\* the calls it made to the metrics collector
Outcome(op, triples, events, returned, success, results, record_message, record_error) ==
    [op |-> op, triples |-> triples, events |-> events, returned |-> returned,
     success |-> success, results |-> results,
     record_message |-> record_message, record_error |-> record_error]

\* `if self.metrics and sensor_id:` for the triple t
records_for(p, t) ==
    IF p.metrics /\ t.sensor_id # None THEN {t.sensor_id[1]} ELSE {}

\* the rest of publish_entity once _publish_with_retry gave r
publish_entity_record(p, t, r) ==
    Outcome("publish_entity", <<t>>, r.events, "bool", r.success, <<>>,
            IF r.success THEN records_for(p, t) ELSE {},
            IF r.success THEN {} ELSE records_for(p, t))

\* publish_entity(entity, sensor_reading, sensor_id)
publish_entity(p, t, outcomes) ==
    IF t.malformed
    THEN Outcome("publish_entity", <<t>>, <<>>, "bool", FALSE, <<>>, {},
                 records_for(p, t))
    ELSE publish_entity_record(p, t,
             publish_with_retry(p, format_entity_for_lattice(t), outcomes, 0, <<>>))

\* the sensor ids publish_entity_batch collects from its triples
batch_sensor_ids(p, triples) ==
    UNION {records_for(p, triples[k]) : k \in DOMAIN triples}

\* the rest of publish_entity_batch once _publish_batch_with_retry gave r
publish_entity_batch_record(p, triples, r) ==
    Outcome("publish_entity_batch", triples, r.events, "map", FALSE, r.results,
            batch_sensor_ids(p, triples), {})

\* publish_entity_batch(entities)
publish_entity_batch(p, triples, outcomes) ==
    IF format_all(triples, 1) = <<>>
    THEN Outcome("publish_entity_batch", triples, <<>>, "map", FALSE, <<>>, {}, {})
    ELSE publish_entity_batch_record(p, triples,
             publish_batch_with_retry(p, format_all(triples, 1), outcomes, 0, <<>>))

\* the rest of flush_batch once _publish_batch_with_retry gave r: the
\* publisher afterwards and what the call did
flush_batch_record(p, op, triples, r) ==
    [publisher |-> [p EXCEPT !.batch = <<>>, !.batch_start_time = None],
     outcome |-> Outcome(op, triples, r.events, "map", FALSE, r.results, {}, {})]

\* flush_batch(), called directly or by add_to_batch (op) for triples
flush_batch(p, outcomes, op, triples) ==
    IF p.batch = <<>>
    THEN [publisher |-> p,
          outcome |-> Outcome(op, triples, <<>>, "map", FALSE, <<>>, {}, {})]
    ELSE flush_batch_record(p, op, triples,
             publish_batch_with_retry(p, p.batch, outcomes, 0, <<>>))

\* the condition under which add_to_batch publishes, read at current_time
should_publish(p, current_time) ==
    \/ Len(p.batch) >= p.batch_size
    \/ /\ p.batch_start_time # None
       /\ p.batch_start_time[1] # 0
       /\ current_time - p.batch_start_time[1] >= p.batch_timeout_seconds

\* `if self._batch_start_time is None: self._batch_start_time = time.time()`
batch_started(p, current_time) ==
    IF p.batch_start_time = None
    THEN [p EXCEPT !.batch_start_time = Some(current_time)]
    ELSE p

\* add_to_batch once the batch timer is started (p)
add_to_started_batch(p, t, outcomes, current_time) ==
    IF t.malformed
    THEN [publisher |-> p,
          outcome |-> Outcome("add_to_batch", <<t>>, <<>>, "None", FALSE, <<>>,
                              {}, {})]
    ELSE IF should_publish([p EXCEPT !.batch = Append(@, format_entity_for_lattice(t))],
                           current_time)
    THEN flush_batch([p EXCEPT !.batch = Append(@, format_entity_for_lattice(t))],
                     outcomes, "add_to_batch", <<t>>)
    ELSE [publisher |-> [p EXCEPT !.batch = Append(@, format_entity_for_lattice(t))],
          outcome |-> Outcome("add_to_batch", <<t>>, <<>>, "None", FALSE, <<>>,
                              {}, {})]

\* add_to_batch(entity, sensor_reading, sensor_id) at current_time
add_to_batch(p, t, outcomes, current_time) ==
    add_to_started_batch(batch_started(p, current_time), t, outcomes, current_time)

\* no call of the publisher has been made
NoOutcome == Outcome("none", <<>>, <<>>, "None", FALSE, <<>>, {}, {})

\* the publisher, what its last call did, the buffer that call found and
\* the number of calls made
NoPublisher ==
    [state |-> LatticePublisher(FALSE, 0, 0, 1, 0), last |-> NoOutcome,
     buffered |-> <<>>, calls |-> 0]

\* the seconds slept in events from index i on
RECURSIVE slept(_, _)
slept(events, i) ==
    IF i > Len(events) THEN 0 ELSE events[i].seconds + slept(events, i + 1)

\* the publisher and the clock after a call that left the publisher as p and
\* did outcome
PublisherCalled(p, outcome) ==
    /\ lattice_publisher' = [state |-> p, last |-> outcome,
                              buffered |-> lattice_publisher.state.batch,
                              calls |-> lattice_publisher.calls + 1]
    /\ now' = now + slept(outcome.events, 1)
    /\ UNCHANGED <<entities, sensors, engineVars, call, move, collector>>

\* the triples the publisher is called with, and the ids of their entities
TriplePool ==
    { Triple(<<"aircraft", 1>>, Some(<<"radar", 1>>), FALSE),
      Triple(<<"vehicle", 2>>, Some(<<"adsb", 2>>), FALSE),
      Triple(<<"vehicle", 2>>, None, FALSE),
      Triple(<<"aircraft", 1>>, Some(<<"radar", 1>>), TRUE) }

\* the lists publish_entity_batch is called with
BatchPool ==
    { <<Triple(<<"aircraft", 1>>, Some(<<"radar", 1>>), FALSE),
        Triple(<<"vehicle", 2>>, Some(<<"adsb", 2>>), FALSE)>>,
      <<Triple(<<"aircraft", 1>>, Some(<<"radar", 1>>), TRUE),
        Triple(<<"vehicle", 2>>, None, FALSE)>>,
      <<Triple(<<"aircraft", 1>>, Some(<<"radar", 1>>), TRUE)>> }

\* what the client does in each of the attempts a call can make for
\* entities with these ids
AttemptOutcomes(ids) ==
    [1..lattice_publisher.state.max_retries -> ClientOutcomes(ids)]

PublishEntity(t) ==
    /\ lattice_publisher.calls < MaxPublishes
    /\ \E outcomes \in AttemptOutcomes({t.entity_id}) :
          PublisherCalled(lattice_publisher.state,
                          publish_entity(lattice_publisher.state, t, outcomes))

PublishEntityBatch(triples) ==
    /\ lattice_publisher.calls < MaxPublishes
    /\ \E outcomes \in AttemptOutcomes(ids_of(format_all(triples, 1))) :
          PublisherCalled(lattice_publisher.state,
                          publish_entity_batch(lattice_publisher.state, triples,
                                               outcomes))

\* the publisher after a call of add_to_batch or flush_batch that gave r
Batched(r) == PublisherCalled(r.publisher, r.outcome)

AddToBatch(t) ==
    /\ lattice_publisher.calls < MaxPublishes
    /\ \E outcomes \in AttemptOutcomes(ids_of(lattice_publisher.state.batch)
                                             \cup {t.entity_id}) :
          Batched(add_to_batch(lattice_publisher.state, t, outcomes, now))

FlushBatch ==
    /\ lattice_publisher.calls < MaxPublishes
    /\ \E outcomes \in AttemptOutcomes(ids_of(lattice_publisher.state.batch)) :
          Batched(flush_batch(lattice_publisher.state, outcomes, "flush_batch",
                              <<>>))

-----------------------------------------------------------------------------
(* The engine's runs: run, run_async, stop and what ends them *)

Durations == {None, Some(0), Some(1), Some(2)}

EngineInit ==
    /\ is_running = FALSE
    /\ start_time = StartClock
    /\ last_update_time = StartClock
    /\ pc = "idle"
    /\ mode = "none"
    /\ duration = None
    /\ wake_at = 0
    /\ run_info = NoRun
    /\ tick = NoTick

Init ==
    /\ now = StartClock
    /\ \E radius_m \in {0, 100} :
          entities = <<Aircraft(TRUE), Vehicle(30000, radius_m)>>
    /\ sensors = <<AcousticSensor(<<"acoustic", 1>>, 0, Scale \div 2, 5000, 500, 0),
                   ADSBSensor(<<"adsb", 2>>, 0, Scale, 200000, Scale)>>
    /\ \E publisher \in BOOLEAN :
          engine = [publisher |-> publisher, metrics |-> TRUE,
                    simulation_speed |-> 1, update_rate_hz |-> Scale]
    /\ EngineInit
    /\ call = NoCall
    /\ move = NoMoves
    /\ collector = NoCollector
    /\ lattice_publisher = NoPublisher

Next ==
    \/ Tick
    \/ \E m \in {"sync", "async"}, d \in Durations : RunStart(m, d)
    \/ \E el \in {0, 1} : LoopStep(el)
    \/ Wake
    \/ LoopExit
    \/ Stop
    \/ Cancel
    \/ Interrupt

Spec == Init /\ [][Next]_vars

-----------------------------------------------------------------------------
(* Single ticks: direct step calls on an engine that is not running *)

DeltaTimes == {-1, 0, 1}

StepInit ==
    /\ now = StartClock
    /\ entities = <<Aircraft(FALSE), Vehicle(0, 100)>>
    /\ sensors = <<AcousticSensor(<<"acoustic", 1>>, 0, Scale \div 2, 5000, 500, 0),
                   RadarSensor(<<"radar", 2>>, 0, Scale, 50000, 1, 10)>>
    /\ \E publisher \in BOOLEAN, metrics \in BOOLEAN :
          engine = [publisher |-> publisher, metrics |-> metrics,
                    simulation_speed |-> 1, update_rate_hz |-> Scale]
    /\ EngineInit
    /\ call = NoCall
    /\ move = NoMoves
    /\ collector = NoCollector
    /\ lattice_publisher = NoPublisher

\* (what happens after the last step explored is left out)
StepNext ==
    \/ run_info.steps < MaxSteps /\ Tick
    \/ /\ run_info.steps < MaxSteps
       /\ \E i \in 1..Len(sensors), active \in BOOLEAN : SetActive(i, active)
    \/ \E delta_time \in DeltaTimes : Step(delta_time)

SpecStep == StepInit /\ [][StepNext]_vars

-----------------------------------------------------------------------------
(* The sensors on their own: direct detect_entities calls on one sensor *)

\* transponder_coverage values: a fraction below 1, 1 and 2
Coverages == {950, Scale, 2 * Scale}

\* one sensor of any variant; with it an aircraft nearby, a tower far out of
\* range and a contact at the edge of the range or one metre beyond it
SensorInit ==
    /\ now = StartClock
    /\ \E rate \in UpdateRates, wind \in {0, Scale \div 2, Scale},
          coverage \in Coverages, noise \in {100, 500} :
          \E s \in { RadarSensor(<<"radar", 1>>, 0, rate, 50000, 1, 10),
                      ADSBSensor(<<"adsb", 2>>, 0, rate, 200000, coverage),
                      CameraSensor(<<"camera", 3>>, 0, rate, 15000, Scale, "auto"),
                      AcousticSensor(<<"acoustic", 4>>, 0, rate, 5000, noise, wind) } :
              /\ sensors = <<s>>
              /\ \E entity_type \in {"aircraft", "ground_vehicle"}, beyond \in {0, 1} :
                    entities = <<Aircraft(FALSE), Tower,
                                 Contact(entity_type, s.max_range_m + beyond)>>
    /\ engine = [publisher |-> FALSE, metrics |-> FALSE,
                 simulation_speed |-> 1, update_rate_hz |-> Scale]
    /\ EngineInit
    /\ call = NoCall
    /\ move = NoMoves
    /\ collector = NoCollector
    /\ lattice_publisher = NoPublisher

SensorNext ==
    \/ Tick
    \/ \E active \in BOOLEAN : SetActive(1, active)
    \/ \E late \in {0, 1} : Detect(1, late)

SpecSensor == SensorInit /\ [][SensorNext]_vars

-----------------------------------------------------------------------------
(* The movement patterns on their own: direct Entity.step calls *)

PatternScenarios ==
    { <<Walker(r, h)>> : r \in {None, Some(1), Some(26)}, h \in {0, 67} }
        \cup { <<Courier(lat)>> : lat \in {0, 10} }
        \cup { <<Vehicle(0, 100)>>, <<Evader>>, <<Leader(0), Wingman(0)>>,
               <<Shuttle>> }

PatternInit ==
    /\ now = StartClock
    /\ entities \in PatternScenarios
    /\ sensors = <<>>
    /\ engine = [publisher |-> FALSE, metrics |-> FALSE,
                 simulation_speed |-> 1, update_rate_hz |-> Scale]
    /\ EngineInit
    /\ call = NoCall
    /\ move = NoMoves
    /\ collector = NoCollector
    /\ lattice_publisher = NoPublisher

PatternNext ==
    \/ Tick
    \/ \E i \in 1..Len(entities), delta_time \in {0, 1} : EntityStep(i, delta_time)

SpecPattern == PatternInit /\ [][PatternNext]_vars

-----------------------------------------------------------------------------
(* The engine's collections: add_entity, add_sensor, remove_entity *)

\* remove_entity(entity_id) on the list from index i on: the list without
\* the first entity that has the id
RECURSIVE remove_entity(_, _, _)
remove_entity(ents, entity_id, i) ==
    IF i > Len(ents) THEN ents
    ELSE IF ents[i].entity_id = entity_id
    THEN SubSeq(ents, 1, i - 1) \o SubSeq(ents, i + 1, Len(ents))
    ELSE remove_entity(ents, entity_id, i + 1)

\* the entities and the sensors a caller may hand to the engine
EntityPool == {Aircraft(FALSE), Tower, Contact("aircraft", 100)}

SensorPool ==
    { RadarSensor(<<"radar", 1>>, 0, Scale, 50000, 1, 10),
      ADSBSensor(<<"adsb", 2>>, 0, Scale, 200000, Scale) }

AddEntity(entity) ==
    /\ pc = "idle"
    /\ Len(entities) < MaxEntities
    /\ entities' = Append(entities, entity)
    /\ UNCHANGED <<now, sensors, engineVars, call, move, collector, lattice_publisher>>

AddSensor(sensor) ==
    /\ pc = "idle"
    /\ Len(sensors) < MaxSensors
    /\ sensors' = Append(sensors, sensor)
    /\ UNCHANGED <<now, entities, engineVars, call, move, collector, lattice_publisher>>

RemoveEntity(entity_id) ==
    /\ pc = "idle"
    /\ entities' = remove_entity(entities, entity_id, 1)
    /\ UNCHANGED <<now, sensors, engineVars, call, move, collector, lattice_publisher>>

\* an engine constructed with one sensor and one entity
CollectionsInit ==
    /\ now = StartClock
    /\ entities = <<Aircraft(FALSE)>>
    /\ sensors = <<RadarSensor(<<"radar", 1>>, 0, Scale, 50000, 1, 10)>>
    /\ engine = [publisher |-> FALSE, metrics |-> FALSE,
                 simulation_speed |-> 1, update_rate_hz |-> Scale]
    /\ EngineInit
    /\ call = NoCall
    /\ move = NoMoves
    /\ collector = NoCollector
    /\ lattice_publisher = NoPublisher

CollectionsNext ==
    \/ Tick
    \/ \E entity \in EntityPool : AddEntity(entity)
    \/ \E sensor \in SensorPool : AddSensor(sensor)
    \/ \E entity \in EntityPool : RemoveEntity(entity.entity_id)

SpecCollections == CollectionsInit /\ [][CollectionsNext]_vars

-----------------------------------------------------------------------------
(* Threads recording metrics of one sensor in one MetricsCollector *)

MetricsInit ==
    /\ now = StartClock
    /\ entities = <<>>
    /\ sensors = <<>>
    /\ engine = [publisher |-> FALSE, metrics |-> TRUE,
                 simulation_speed |-> 1, update_rate_hz |-> Scale]
    /\ EngineInit
    /\ call = NoCall
    /\ move = NoMoves
    /\ collector = NoCollector
    /\ lattice_publisher = NoPublisher

MetricsNext ==
    \/ \E t \in Threads, op \in {"message", "error"} : RecordBegin(t, op)
    \/ \E t \in Threads : RecordLoad(t)
    \/ \E t \in Threads : RecordStore(t)

SpecMetrics == MetricsInit /\ [][MetricsNext]_vars

-----------------------------------------------------------------------------
(* The publisher on its own: direct calls with a client that may fail *)

PublisherInit ==
    /\ now = StartClock
    /\ entities = <<>>
    /\ sensors = <<>>
    /\ engine = [publisher |-> TRUE, metrics |-> TRUE,
                 simulation_speed |-> 1, update_rate_hz |-> Scale]
    /\ EngineInit
    /\ call = NoCall
    /\ move = NoMoves
    /\ collector = NoCollector
    /\ \E metrics \in BOOLEAN, max_retries \in 0..3, batch_size \in {1, 3} :
          lattice_publisher
              = [NoPublisher EXCEPT
                     !.state = LatticePublisher(metrics, max_retries, 1,
                                                batch_size, 1)]

PublisherNext ==
    \/ Tick
    \/ \E t \in TriplePool : PublishEntity(t)
    \/ \E triples \in BatchPool : PublishEntityBatch(triples)
    \/ \E t \in TriplePool : AddToBatch(t)
    \/ FlushBatch

SpecPublisher == PublisherInit /\ [][PublisherNext]_vars

\* single publishes only: the retry loop of _publish_with_retry
RetryNext ==
    \/ Tick
    \/ \E t \in TriplePool : PublishEntity(t)

SpecRetry == PublisherInit /\ [][RetryNext]_vars

-----------------------------------------------------------------------------
(* The engine stepping entities whose patterns draw, read the clock or follow *)

\* an evader alone; a leader and its follower in either order, starting at
\* the origin or 500 m south of the pole
FleetScenarios ==
    { <<Evader>> }
        \cup { <<Leader(lat), Wingman(lat)>> : lat \in {0, PoleLat - 500} }
        \cup { <<Wingman(lat), Leader(lat)>> : lat \in {0, PoleLat - 500} }

FleetInit ==
    /\ now = StartClock
    /\ entities \in FleetScenarios
    /\ sensors = <<>>
    /\ engine = [publisher |-> FALSE, metrics |-> FALSE,
                 simulation_speed |-> 1, update_rate_hz |-> Scale]
    /\ EngineInit
    /\ call = NoCall
    /\ move = NoMoves
    /\ collector = NoCollector
    /\ lattice_publisher = NoPublisher

FleetNext ==
    \/ Tick
    \/ \E delta_time \in {0, 1} : Step(delta_time)

SpecFleet == FleetInit /\ [][FleetNext]_vars

-----------------------------------------------------------------------------
(* Properties of the sensors *)

\* C1: for each of the four sensor variants, whenever is_active is false,
\* detect_entities returns an empty list, for every entity list and every
\* value of last_update, including when should_update() is true.
C1_InactiveReturnsEmpty ==
    (call.done /\ ~call.sensor.is_active) => call.readings = <<>>

\* fewer than 1/update_rate_hz seconds lie between the last_update of the
\* sensor and the clock value the call read first
CallWithinInterval ==
    (call.check_time - call.sensor.last_update) * call.sensor.update_rate_hz < Scale

\* C10: a detect_entities call made when less than 1/update_rate_hz seconds
\* have elapsed since the sensor's last_update returns an empty list (and does
\* not scan), so a call that scans is stamped at least 1/update_rate_hz after
\* the stamp of the scan before it.
C10_RateGating ==
    call.done =>
        /\ CallWithinInterval => (call.readings = <<>> /\ ~call.scanned)
        /\ call.scanned =>
              (call.current_time - call.sensor.last_update)
                  * call.sensor.update_rate_hz >= Scale

\* an active sensor that scanned before is called again too early, with an
\* entity in range, and returns nothing
C10_Witness ==
    /\ call.done
    /\ call.sensor.is_active
    /\ call.sensor.last_update >= StartClock
    /\ CallWithinInterval
    /\ \E k \in 1..Len(entities) : can_detect(call.sensor, entities[k])
    /\ call.readings = <<>>

\* the entity is farther from the sensor than the sensor's max_range_m
OutOfRange(s, e) ==
    calculate_distance(s.position_lat, s.position_lon, e.lat, e.lon) > s.max_range_m

\* the call returned a reading whose entity_id is that of e
ReturnedFor(e) ==
    \E r \in 1..Len(call.readings) : call.readings[r].entity_id = e.entity_id

\* C11: for all four sensor variants and every entity whose distance from the
\* sensor exceeds max_range_m, detect_entities never returns a reading whose
\* entity_id is that entity's id, in any call and whatever the random outcomes.
C11_RangeGating ==
    call.done =>
        \A k \in 1..Len(entities) :
            OutOfRange(call.sensor, entities[k]) => ~ReturnedFor(entities[k])

\* a call that scanned and returned readings, none of them for the aircraft
\* that is one metre beyond the range
C11_Witness ==
    /\ call.done
    /\ call.scanned
    /\ call.readings # <<>>
    /\ \E k \in 1..Len(entities) :
          /\ entities[k].entity_type = "aircraft"
          /\ entities[k].lat = call.sensor.max_range_m + 1
          /\ OutOfRange(call.sensor, entities[k])
          /\ ~ReturnedFor(entities[k])

\* C12: the ADS-B sensor never returns a reading for an entity whose
\* entity_type is not aircraft, for any transponder_coverage value (values of
\* 1 and above included) and any random outcome.
C12_ADSBExclusivity ==
    (call.done /\ call.sensor.sensor_type = "adsb") =>
        \A k \in 1..Len(entities) :
            entities[k].entity_type # "aircraft" => ~ReturnedFor(entities[k])

\* an ADS-B sensor with transponder_coverage of 1 or more scanned a ground
\* vehicle in range and returned readings, none of them for the vehicle
C12_Witness ==
    /\ call.done
    /\ call.sensor.sensor_type = "adsb"
    /\ call.sensor.transponder_coverage >= Scale
    /\ call.scanned
    /\ call.readings # <<>>
    /\ \E k \in 1..Len(entities) :
          /\ entities[k].entity_type = "ground_vehicle"
          /\ ~OutOfRange(call.sensor, entities[k])
          /\ ~ReturnedFor(entities[k])

\* C23: every SensorReading returned by detect_entities of any sensor variant,
\* the radar's false-alarm readings included, has a confidence in the closed
\* interval [0, 1], for every entity position within range and every random
\* outcome.
C23_ConfidenceInUnitInterval ==
    call.done =>
        \A r \in 1..Len(call.readings) :
            /\ call.readings[r].confidence >= 0
            /\ call.readings[r].confidence <= Scale

\* an acoustic sensor in a wind that doubles the detection probability
\* returned a reading whose confidence is exactly 1
C23_Witness ==
    /\ call.done
    /\ call.sensor.sensor_type = "acoustic"
    /\ call.sensor.wind_impact_factor = Scale \div 2
    /\ \E r \in 1..Len(call.readings) : call.readings[r].confidence = Scale

\* C25: a detect_entities call gated off by should_update() leaves last_update
\* and all other state of the sensor unchanged, a call that scans sets
\* last_update to the time of that call and changes nothing else of the
\* sensor, and under the non-decreasing clock last_update never decreases.
C25_LastUpdateOnlyAdvances ==
    [][/\ sensors'[1].last_update >= sensors[1].last_update
       /\ (call' # call) =>
             /\ ~should_update(sensors[1], call'.check_time)
                   => sensors'[1] = sensors[1]
             /\ call'.scanned
                   => sensors'[1] = [sensors[1] EXCEPT
                                        !.last_update = call'.current_time]]_vars

\* a call gated off after an earlier scan had stamped the sensor
C25_Witness ==
    /\ call.done
    /\ ~call.scanned
    /\ ~call.raised
    /\ call.sensor.is_active
    /\ call.sensor.last_update >= StartClock
    /\ sensors[1] = call.sensor

-----------------------------------------------------------------------------
(* Properties of the movement patterns *)

\* the final waypoint of the route of e
FinalWaypoint(e) ==
    e.movement_pattern.waypoints[Len(e.movement_pattern.waypoints)]

\* C14: for a Waypoint pattern with loop = false, once an update finds the
\* entity within arrival_threshold_m of the final waypoint while targeting it,
\* that update and every later update return speed_ms = 0 and a position equal
\* to the final waypoint, for any later delta_time values.
C14_WaypointTermination ==
    \A i \in move.arrived :
        /\ entities[i].speed_ms = 0
        /\ entities[i].lat = FinalWaypoint(entities[i]).lat
        /\ entities[i].lon = FinalWaypoint(entities[i]).lon

\* an update with delta_time = 1 of an entity that an earlier update had
\* already stopped at its final waypoint
C14_Witness ==
    /\ move.index \in move.arrived
    /\ move.delta_time = 1
    /\ move.before.speed_ms = 0
    /\ move.before.lat = FinalWaypoint(entities[move.index]).lat
    /\ entities[move.index].speed_ms = 0

\* C15: a RandomWalk pattern with boundary_radius_m = R > 0 that drives an
\* entity from the pattern's origin with the same travel distance
\* d = speed_ms * delta_time in every update never reports a position farther
\* than R + d from the origin, whatever the heading changes drawn.
C15_BoundaryContainment ==
    \A i \in 1..Len(entities) :
        LET p == entities[i].movement_pattern
        IN  (/\ p.kind = "random_walk"
             /\ boundary_set(p.boundary_radius_m)
             /\ Cardinality(move.deltas) = 1)
            => \A delta_time \in move.deltas :
                   calculate_distance(p.initial_lat, p.initial_lon,
                                      entities[i].lat, entities[i].lon)
                       <= p.boundary_radius_m[1] + p.speed_ms * delta_time

\* C17: for every movement pattern variant, update with delta_time = 0
\* returns lat, lon, altitude, heading and speed equal to the current values
\* it was given.
C17_ZeroDeltaTimeFrame ==
    (move.count > 0 /\ move.delta_time = 0)
        => kinematics(entities[move.index]) = move.before

\* lat, lon, altitude, heading and speed of every entity of the list
Kinematics(ents) == [k \in 1..Len(ents) |-> kinematics(ents[k])]

\* the kinematic state after step(delta_time) at wall-clock time t
AfterStepAt(delta_time, draws, rnds, t) ==
    Kinematics(step(engine, entities, sensors, delta_time, draws, rnds, TRUE, t).entities)

\* C13: with the random source held fixed, two invocations of step on the
\* same entity/sensor snapshot (pattern-internal state included) with the same
\* delta_time give the same post-tick kinematic state of the entities,
\* whatever the wall-clock times of the two invocations.
C13_TickDeterminism ==
    \A delta_time \in {0, 1}, draws \in MoveOutcomes, rnds \in TickOutcomes :
        \A t1 \in now..MaxTime, t2 \in now..MaxTime :
            AfterStepAt(delta_time, draws, rnds, t1)
                = AfterStepAt(delta_time, draws, rnds, t2)

\* the index of the leader of the follower at index k
LeaderIndex(ents, k) ==
    CHOOSE j \in 1..Len(ents) :
        ents[j].entity_id = ents[k].movement_pattern.leader_entity

\* the kinematic state of a follower with pattern p in its slot beside leader
InFormation(p, leader) ==
    State(leader.lat + p.offset_lat_m, leader.lon + p.offset_lon_m,
          leader.altitude_m + p.offset_altitude_m, leader.heading_deg,
          leader.speed_ms)

\* C16: after a step, a Formation follower whose leader precedes it in the
\* engine's entity order is at the leader's post-tick position plus its offset,
\* with the leader's post-tick heading and speed; a follower whose leader comes
\* later is at the leader's pre-tick position plus offset (with the pre-tick
\* heading and speed). The follower's own prior state plays no part.
C16_FormationOrdering ==
    (tick.done /\ ~tick.raised) =>
        \A k \in 1..Len(entities) :
            entities[k].movement_pattern.kind = "formation" =>
                kinematics(entities[k])
                    = InFormation(entities[k].movement_pattern,
                                  IF LeaderIndex(entities, k) < k
                                  THEN entities[LeaderIndex(entities, k)]
                                  ELSE tick.before[LeaderIndex(entities, k)])

\* a step with delta_time = 1 in which the leader, later in the order, moved:
\* the follower is beside the place the leader left
C16_Witness ==
    /\ tick.done
    /\ ~tick.raised
    /\ tick.delta_time = 1
    /\ Len(entities) = 2
    /\ entities[1].movement_pattern.kind = "formation"
    /\ entities[2].lat # tick.before[2].lat
    /\ entities[1].lat = tick.before[2].lat + entities[1].movement_pattern.offset_lat_m
    /\ entities[1].lat # tick.before[1].lat

\* C18: after any sequence of step calls on entities created with valid
\* initial state, every entity has lat in [-90, 90] degrees, lon in
\* [-180, 180] degrees, speed_ms >= 0 and last_update >= created_at, whichever
\* movement pattern drives it.
C18_EntityInvariant ==
    \A k \in 1..Len(entities) :
        /\ Abs(entities[k].lat) <= PoleLat
        /\ Abs(entities[k].lon) <= 2 * PoleLat
        /\ entities[k].speed_ms >= 0
        /\ entities[k].last_update >= entities[k].created_at

\* the step is an update of the Waypoint pattern of entities[i], which has a
\* route
WaypointUpdateOf(i) ==
    /\ move'.count = move.count + 1
    /\ move'.index = i
    /\ entities[i].movement_pattern.kind = "waypoint"
    /\ entities[i].movement_pattern.waypoints # <<>>

\* the waypoint the pattern of e targets
TargetedWaypoint(e) ==
    e.movement_pattern.waypoints[e.movement_pattern.current_waypoint_idx + 1]

\* C27: in every Waypoint update that does not hold at the final waypoint the
\* entity moves toward the waypoint targeted after any index advance of that
\* update by exactly min(speed_ms * delta_time, remaining distance to that
\* waypoint), so it never overshoots it and its travel is not limited by the
\* distance to a waypoint it has just reached.
C27_TravelTowardTarget ==
    [][\A i \in 1..Len(entities) :
          (WaypointUpdateOf(i) /\ ~finds_final_waypoint(entities[i])) =>
              LET target == TargetedWaypoint(entities'[i])
                  remaining == calculate_distance(entities[i].lat, entities[i].lon,
                                                  target.lat, target.lon)
                  travelled == calculate_distance(entities[i].lat, entities[i].lon,
                                                  entities'[i].lat, entities'[i].lon)
              IN  /\ travelled = Min(entities[i].movement_pattern.speed_ms
                                         * move'.delta_time, remaining)
                  /\ calculate_distance(entities'[i].lat, entities'[i].lon,
                                        target.lat, target.lon)
                        = remaining - travelled]_vars

\* C28: in every Waypoint update, the one that arrives at the last waypoint of
\* a non-looping route and the later holding updates included, the returned
\* altitude differs from the supplied one by at most 10 m/s * delta_time and
\* never passes the target altitude.
C28_AltitudeRateLimited ==
    [][\A i \in 1..Len(entities) :
          WaypointUpdateOf(i) =>
              LET target_alt == target_altitude(TargetedWaypoint(entities'[i]),
                                                kinematics(entities[i]))
              IN  /\ Abs(entities'[i].altitude_m - entities[i].altitude_m)
                        <= 10 * move'.delta_time
                  /\ entities[i].altitude_m <= target_alt
                        => entities'[i].altitude_m <= target_alt
                  /\ entities[i].altitude_m >= target_alt
                        => entities'[i].altitude_m >= target_alt]_vars

\* the step is an update of the Evasive pattern of entities[i]
EvasiveUpdateOf(i) ==
    /\ move'.count = move.count + 1
    /\ move'.index = i
    /\ entities[i].movement_pattern.kind = "evasive"

\* C26: after every update of the Evasive pattern the returned speed is
\* 1.5 * base_speed_ms exactly when the pattern is left manoeuvring and
\* base_speed_ms otherwise; the first update at or after the end time of the
\* manoeuvre leaves the pattern cruising with the supplied heading and altitude
\* (so no new manoeuvre starts in that update); the altitude returned while
\* manoeuvring is never negative.
C26_EvasiveTwoStates ==
    [][\A i \in 1..Len(entities) :
          EvasiveUpdateOf(i) =>
              LET p == entities[i].movement_pattern
                  q == entities'[i].movement_pattern
                  fast == (p.base_speed_ms * 3) \div 2
              IN  /\ entities'[i].speed_ms = IF q.in_maneuver THEN fast
                                              ELSE p.base_speed_ms
                  /\ q.in_maneuver <=> entities'[i].speed_ms = fast
                  /\ (p.in_maneuver /\ now >= p.maneuver_end_time)
                        => /\ ~q.in_maneuver
                           /\ entities'[i].heading_deg = entities[i].heading_deg
                           /\ entities'[i].altitude_m = entities[i].altitude_m
                  /\ q.in_maneuver => entities'[i].altitude_m >= 0]_vars

\* the update at the end time of a manoeuvre has returned the pattern to
\* cruising at base speed
C26_Witness ==
    /\ move.count > 0
    /\ entities[move.index].movement_pattern.kind = "evasive"
    /\ ~entities[move.index].movement_pattern.in_maneuver
    /\ entities[move.index].movement_pattern.maneuver_end_time >= StartClock
    /\ now >= entities[move.index].movement_pattern.maneuver_end_time
    /\ move.before.speed_ms > entities[move.index].speed_ms
    /\ entities[move.index].speed_ms
          = entities[move.index].movement_pattern.base_speed_ms

-----------------------------------------------------------------------------
(* Properties of the engine's collections *)

\* the ids of a list of entities, in the order of the list
EntityIds(ents) == [k \in 1..Len(ents) |-> ents[k].entity_id]

SensorIds(sens) == [k \in 1..Len(sens) |-> sens[k].sensor_id]

\* no element occurs twice in the sequence
Distinct(ids) ==
    \A i \in 1..Len(ids), j \in 1..Len(ids) : ids[i] = ids[j] => i = j

\* the sequence after is the sequence before, or before with one element
\* (the latest) added at the end, or before with one element taken out
InsertionOrderKept(before, after) ==
    \/ after = before
    \/ Len(after) = Len(before) + 1 /\ SubSeq(after, 1, Len(before)) = before
    \/ \E i \in 1..Len(before) :
          after = SubSeq(before, 1, i - 1) \o SubSeq(before, i + 1, Len(before))

\* C19: after any sequence of add_entity, add_sensor and remove_entity calls
\* on an engine constructed with unique ids, the entity ids in the entity
\* collection are pairwise distinct, the sensor ids in the sensor collection
\* are pairwise distinct, and both collections keep insertion order.
C19_UniqueIdsInOrder ==
    [][/\ Distinct(EntityIds(entities'))
       /\ Distinct(SensorIds(sensors'))
       /\ InsertionOrderKept(EntityIds(entities), EntityIds(entities'))
       /\ InsertionOrderKept(SensorIds(sensors), SensorIds(sensors'))]_vars

-----------------------------------------------------------------------------
(* Properties of the metrics *)

\* C20: when several threads call record_message and record_error of one
\* MetricsCollector for the same sensor_id concurrently, no update is lost:
\* once all calls have returned, messages_sent equals the number of
\* record_message calls and errors the number of record_error calls, under
\* every interleaving.
C20_NoLostUpdate ==
    (/\ collector.sensor # None
     /\ \A t \in Threads : collector.threads[t].pc = "idle")
        => /\ collector.sensor[1].messages_sent = collector.calls.message
           /\ collector.sensor[1].errors = collector.calls.error

-----------------------------------------------------------------------------
(* Properties of the publisher *)

\* the calls of the client among events, in order
ClientCalls(events) == SelectSeq(events, LAMBDA e : e.kind = "call")

\* the client accepted the entity with this id in the call c
AcceptedIn(c, id) ==
    /\ ~c.outcome.raised
    /\ id \in ids_of(c.entities)
    /\ id \in c.outcome.accepted

\* the client accepted the entity with this id in some call of events
AcceptedEver(events, id) ==
    \E k \in DOMAIN events : events[k].kind = "call" /\ AcceptedIn(events[k], id)

\* the last call of the publisher was publish_entity for a triple that formats
RetriedSingle ==
    /\ lattice_publisher.last.op = "publish_entity"
    /\ ~lattice_publisher.last.triples[1].malformed

BatchCall == lattice_publisher.last.op \in {"add_to_batch", "flush_batch"}

\* the last call flushed the buffer it found, with the entry it added
Flushed ==
    \/ lattice_publisher.last.op = "flush_batch"
    \/ /\ lattice_publisher.last.op = "add_to_batch"
       /\ lattice_publisher.last.returned = "map"

\* the buffer the flush of the last call found
FlushedBuffer ==
    IF lattice_publisher.last.op = "flush_batch" THEN lattice_publisher.buffered
    ELSE Append(lattice_publisher.buffered,
                format_entity_for_lattice(lattice_publisher.last.triples[1]))

\* C30: with batch_size >= 1, after add_to_batch returns the buffer holds
\* fewer than batch_size entries; flush_batch on an empty buffer makes no
\* client call and returns an empty map; flush_batch on a non-empty buffer
\* submits exactly the buffered entries and leaves the buffer empty with the
\* batch timer reset, whether or not the publish succeeded.
C30_BatchBuffer ==
    BatchCall =>
        LET last == lattice_publisher.last
            p == lattice_publisher.state
            calls == ClientCalls(last.events)
        IN  /\ last.op = "add_to_batch" => Len(p.batch) < p.batch_size
            /\ (Flushed /\ FlushedBuffer = <<>>)
                  => /\ calls = <<>>
                     /\ DOMAIN last.results = {}
            /\ (Flushed /\ FlushedBuffer # <<>>)
                  => /\ calls # <<>>
                     /\ calls[1].entities = FlushedBuffer
                     /\ \A k \in DOMAIN calls :
                           ids_of(calls[k].entities) \subseteq ids_of(FlushedBuffer)
                     /\ p.batch = <<>>
                     /\ p.batch_start_time = None

\* C22: publish_entity_batch returns a map with an entry for every entity id
\* of the submitted list, true iff the client accepted that entity in some
\* attempt, also when some entities succeed in the first attempt and the
\* others succeed or fail only in a later one.
C22_BatchResultsComplete ==
    lattice_publisher.last.op = "publish_entity_batch" =>
        \A k \in DOMAIN lattice_publisher.last.triples :
            ~lattice_publisher.last.triples[k].malformed =>
                LET id == lattice_publisher.last.triples[k].entity_id
                IN  /\ id \in DOMAIN lattice_publisher.last.results
                    /\ lattice_publisher.last.results[id]
                          <=> AcceptedEver(lattice_publisher.last.events, id)

\* the publish of triple k of the last call failed
PublishFailed(k) ==
    IF lattice_publisher.last.op = "publish_entity"
    THEN ~lattice_publisher.last.success
    ELSE \/ lattice_publisher.last.triples[k].malformed
         \/ ~AcceptedEver(lattice_publisher.last.events,
                          lattice_publisher.last.triples[k].entity_id)

\* C21: every publish failure for a triple whose sensor id is known is
\* recorded in the metrics as an error of that sensor (record_error) and not
\* as a message sent, by publish_entity and by publish_entity_batch.
C21_FailuresRecorded ==
    (/\ lattice_publisher.last.op \in {"publish_entity", "publish_entity_batch"}
     /\ lattice_publisher.state.metrics) =>
        \A k \in DOMAIN lattice_publisher.last.triples :
            (/\ lattice_publisher.last.triples[k].sensor_id # None
             /\ PublishFailed(k))
                => /\ lattice_publisher.last.triples[k].sensor_id[1]
                         \in lattice_publisher.last.record_error
                   /\ lattice_publisher.last.triples[k].sensor_id[1]
                         \notin lattice_publisher.last.record_message

-----------------------------------------------------------------------------
(* Properties of one step of the engine *)

\* the triples of all_readings that carry sensor_id sid
TriplesOf(all_readings, sid) ==
    SelectSeq(all_readings, LAMBDA t : t.sensor_id = sid)

\* how often x occurs in seq
Count(seq, x) == Cardinality({k \in DOMAIN seq : seq[k] = x})

\* the triples handed to the publisher by calls, in the order handed, from
\* call i on
RECURSIVE Handed(_, _)
Handed(calls, i) ==
    IF i > Len(calls) THEN <<>> ELSE calls[i].triples \o Handed(calls, i + 1)

\* a direct step call is made
StepTaken == run_info'.steps = run_info.steps + 1

\* some random outcome of sensor s over ents at current_time gives, without
\* raising, readings that resolve to the triples all_readings holds for s
DetectionsKept(s, ents, current_time, all_readings) ==
    \E rnd \in RandomOutcomes(s, ents, current_time) :
        /\ ~scan_entities(s, ents, rnd, current_time, 1).raised
        /\ TriplesOf(all_readings, s.sensor_id)
             = resolve_readings(ents,
                                detect_entities(s, ents, rnd, current_time,
                                                current_time).readings,
                                s.sensor_id, 1)

C2_FaultIsolated ==
    (StepTaken /\ tick'.faults # <<>>) =>
        /\ ~tick'.raised
        /\ \A k \in DOMAIN tick'.faults :
              /\ Count(tick'.record_error, tick'.faults[k])
                   = (IF engine.metrics THEN 1 ELSE 0)
              /\ TriplesOf(tick'.all_readings, tick'.faults[k]) = <<>>
        /\ \A i \in DOMAIN sensors :
              sensors[i].is_active =>
                  /\ Count(tick'.invoked, sensors[i].sensor_id) = 1
                  /\ Count(tick'.faults, sensors[i].sensor_id) = 0 =>
                        DetectionsKept(sensors[i], entities', now,
                                       tick'.all_readings)
        /\ engine.publisher => Handed(tick'.publish, 1) = tick'.all_readings
        /\ engine.metrics =>
              tick'.entity_counts = Some(<<Len(entities'), Len(entities')>>)

\* C2: if a sensor raises inside detect_entities during step, step completes
\* without raising: record_error is called exactly once for that sensor (when
\* there is a metrics collector), the sensor contributes no triple, every
\* other active sensor is invoked and its detections are published, and the
\* entity counts are reported.
C2_SensorFaultDoesNotAbortStep == [][C2_FaultIsolated]_vars

\* a step in which one sensor raised and another one's detection was
\* published, with a metrics collector
C2_Witness ==
    /\ tick.done
    /\ ~tick.raised
    /\ engine.metrics
    /\ engine.publisher
    /\ tick.faults # <<>>
    /\ tick.record_error = tick.faults
    /\ \E k \in DOMAIN tick.all_readings :
          Count(tick.faults, tick.all_readings[k].sensor_id) = 0
    /\ Handed(tick.publish, 1) = tick.all_readings
    /\ tick.entity_counts # None

\* the entities while entity i is advanced: those before it already advanced
AdvancedBefore(i) ==
    [k \in DOMAIN entities |-> IF k < i THEN entities'[k] ELSE entities[k]]

\* the position of the sensor with id sid in the collection
SensorIndex(sid) == CHOOSE i \in DOMAIN sensors : sensors[i].sensor_id = sid

C24_AdvanceThenQuery ==
    (StepTaken /\ ~tick'.raised) =>
        /\ \A i \in DOMAIN entities :
              \E d \in move_draws(entities[i].movement_pattern) :
                  entities'[i] = entity_step(entities[i], tick'.delta_time,
                                             AdvancedBefore(i), d, now).entity
        /\ tick'.invoked
              = [k \in 1..Len(SelectSeq(sensors, LAMBDA s : s.is_active)) |->
                    SelectSeq(sensors, LAMBDA s : s.is_active)[k].sensor_id]
        /\ \A k \in DOMAIN tick'.all_readings :
              /\ \E i \in DOMAIN entities :
                    tick'.all_readings[k].entity = entities'[i]
              /\ \A j \in 1..(k - 1) :
                    SensorIndex(tick'.all_readings[j].sensor_id)
                        <= SensorIndex(tick'.all_readings[k].sensor_id)
        /\ \A i \in DOMAIN sensors :
              (sensors[i].is_active
                   /\ Count(tick'.faults, sensors[i].sensor_id) = 0)
                  => DetectionsKept(sensors[i], entities', now,
                                    tick'.all_readings)
        /\ \A i \in DOMAIN sensors :
              ~sensors[i].is_active
                  => /\ sensors'[i] = sensors[i]
                     /\ TriplesOf(tick'.all_readings, sensors[i].sensor_id) = <<>>

C7_NegativeDeltaTimeFails ==
    (tick.done /\ tick.delta_time < 0) =>
        /\ tick.raised
        /\ \A k \in DOMAIN entities :
              kinematics(entities[k]) = kinematics(tick.before[k])

\* C8: in each step with a publisher, more than one triple collected gives
\* exactly one publish_entity_batch call with all of them and no
\* publish_entity call; exactly one triple gives exactly one publish_entity
\* call with it; none gives no call; each triple is handed over exactly once
\* whatever the publisher returns.
C8_PublishDispatch ==
    (tick.done /\ ~tick.raised /\ engine.publisher) =>
        LET n == Len(tick.all_readings)
            batch == {c \in DOMAIN tick.publish :
                         tick.publish[c].op = "publish_entity_batch"}
            single == {c \in DOMAIN tick.publish :
                          tick.publish[c].op = "publish_entity"}
        IN  /\ DOMAIN tick.publish = batch \cup single
            /\ n > 1 => /\ Cardinality(batch) = 1
                        /\ single = {}
                        /\ tick.publish[1].triples = tick.all_readings
            /\ n = 1 => /\ batch = {}
                        /\ Cardinality(single) = 1
                        /\ tick.publish[1].triples = tick.all_readings
            /\ n = 0 => tick.publish = <<>>
            /\ Handed(tick.publish, 1) = tick.all_readings

\* a step that collected two triples and gave them to publish_entity_batch,
\* which reported failure
C8_Witness ==
    /\ tick.done
    /\ engine.publisher
    /\ Len(tick.all_readings) > 1
    /\ Len(tick.publish) = 1
    /\ tick.publish[1].op = "publish_entity_batch"
    /\ ~tick.publish[1].ok

\* C9: every triple handed to the publisher has reading.entity_id =
\* entity.entity_id, its entity in the engine's collection at that tick and
\* its sensor_id that of the sensor that made the reading; a reading whose
\* entity_id matches no current entity (every radar false alarm) is not
\* handed over.
C9_TriplesResolved ==
    tick.done =>
        /\ \A c \in DOMAIN tick.publish :
              \A j \in DOMAIN tick.publish[c].triples :
                  LET t == tick.publish[c].triples[j]
                  IN  /\ t.reading.entity_id = t.entity.entity_id
                      /\ \E k \in DOMAIN entities : entities[k] = t.entity
                      /\ t.sensor_id = t.reading.sensor_id
                      /\ Count(tick.invoked, t.sensor_id) = 1
                      /\ ~t.reading.false_alarm
        /\ \A k \in DOMAIN tick.skipped :
              /\ \A e \in DOMAIN entities :
                    entities[e].entity_id # tick.skipped[k].entity_id
              /\ \A j \in DOMAIN Handed(tick.publish, 1) :
                    Handed(tick.publish, 1)[j].reading # tick.skipped[k]

\* a step in which the radar returned a false alarm next to a detection, and
\* the detection was published
C9_Witness ==
    /\ tick.done
    /\ tick.publish # <<>>
    /\ \E k \in DOMAIN tick.skipped : tick.skipped[k].false_alarm

-----------------------------------------------------------------------------
(* Properties of run, run_async and stop *)

\* run or run_async has returned
Returned == pc = "idle" /\ run_info.exit # "none"

\* C3: every exit from run or run_async (duration limit, explicit stop(),
\* KeyboardInterrupt, cancellation, an exception escaping step) leaves
\* is_running false, and with a publisher flush_batch is invoked exactly once
\* between the start of the run and its return, also when stop() was called
\* during the run.
C3_ExitStopsAndFlushesOnce ==
    /\ Returned =>
          /\ ~is_running
          /\ engine.publisher => run_info.flushes = 1
    /\ run_info.flushes <= 1

\* a run with a publisher returned after stop() was called during it
C3_Witness ==
    /\ Returned
    /\ engine.publisher
    /\ run_info.stop_seen
    /\ run_info.exit = "stopped"
    /\ run_info.steps > 0
    /\ run_info.flushes = 1

C4_AfterStopOrCancel ==
    /\ (mode = "async" /\ run_info.stop_seen /\ run_info'.runs = run_info.runs) =>
          (run_info'.steps = run_info.steps /\ tick' = tick /\ entities' = entities)
    /\ (mode = "async" /\ run_info'.stop_seen /\ pc # "idle" /\ pc' = "idle") =>
          (~is_running' /\ (engine.publisher => run_info'.flushes >= 1))

\* C4: if run_async is cancelled while suspended at its sleep, or stop() is
\* called during that suspension, no further step executes in that run, and
\* when run_async returns stop() has run: is_running is false and flush_batch
\* of the publisher has been invoked.
C4_CooperativeCancellation == [][C4_AfterStopOrCancel]_vars

\* run_async returned after stop() was called while it slept
C4_Witness ==
    /\ Returned
    /\ mode = "async"
    /\ run_info.stop_seen
    /\ run_info.exit = "stopped"
    /\ engine.publisher
    /\ run_info.flushes = 1
    /\ ~is_running
    /\ now >= wake_at

\* C5: run(duration_seconds=d) and run_async(duration_seconds=d) leave the
\* loop right after the first step whose tick began at least d seconds after
\* start_time, for every d that is not None, d = 0 included: the loop is
\* never at its head or asleep after such a step.
C5_DurationEndsLoop ==
    (pc \in {"top", "sleeping"} /\ duration # None /\ run_info.steps > 0) =>
        run_info.tick_began - start_time < duration[1]

\* C6: the loop of run/run_async ends only through stop(), the duration
\* limit, cancellation or interruption: an exception raised during step (by a
\* movement pattern, a sensor or the publisher) does not end it.
C6_StepExceptionDoesNotEndRun ==
    run_info.exit \in {"none", "stopped", "duration", "cancelled", "interrupt"}

=============================================================================
